---- MODULE Spec2Model ----
(***************************************************************************)
(* Model of scripts/infinity_grid.py: the binding of the grid engine to    *)
(* the image backend.  Python values are tagged records, text is a         *)
(* sequence of one-character strings.                                      *)
(***************************************************************************)
EXTENDS Integers, Sequences, FiniteSets, TLC

---------------------------------------------------------------------------
(* Bounds of the model *)

\* number of coordinates (sets) of one grid
MaxSets == 2
\* number of axis values (param-add calls) of one coordinate
MaxAxes == 2
\* number of images the backend may return for one render
MaxImages == 2

MaxValues == 3

---------------------------------------------------------------------------
(* Python values *)

None == [none |-> TRUE]
IntV(n) == [int |-> n]
StrV(s) == [str |-> s]
BoolV(b) == [bool |-> b]
\* a missing attribute (hasattr(...) is False)
Absent == [absent |-> TRUE]

IsInt(x) == "int" \in DOMAIN x
IsStr(x) == "str" \in DOMAIN x
IsBool(x) == "bool" \in DOMAIN x

\* bool(x) as Python's `if x:` / `x or y` test it
Truthy(x) ==
  IF IsBool(x) THEN x.bool
  ELSE IF IsInt(x) THEN x.int # 0
  ELSE IF IsStr(x) THEN Len(x.str) > 0
  ELSE FALSE

\* x or y
PyOr(x, y) == IF Truthy(x) THEN x ELSE y

Digits == <<"0", "1", "2", "3", "4", "5", "6", "7", "8", "9">>

DigitVal(c) == CHOOSE d \in 0..9 : Digits[d + 1] = c

RECURSIVE ParseDigits(_, _)
ParseDigits(s, acc) ==
  IF s = <<>> THEN acc ELSE ParseDigits(Tail(s), 10 * acc + DigitVal(Head(s)))

\* int(x) on an integer, a boolean or a decimal numeral
PyInt(x) ==
  IF IsInt(x) THEN x.int
  ELSE IF IsBool(x) THEN (IF x.bool THEN 1 ELSE 0)
  ELSE IF Head(x.str) = "-" THEN 0 - ParseDigits(Tail(x.str), 0)
  ELSE ParseDigits(x.str, 0)

\* A dict is the sequence of its <<key, value>> items in insertion order.
EmptyDict == <<>>

DictKeys(d) == {d[i][1] : i \in 1..Len(d)}

\* d.get(k)
DictGet(d, k) ==
  IF k \in DictKeys(d) THEN d[CHOOSE i \in 1..Len(d) : d[i][1] = k][2] ELSE None

\* d[k] = v: a key already present keeps its position
DictSet(d, k, v) ==
  IF k \in DictKeys(d)
  THEN [i \in 1..Len(d) |-> IF d[i][1] = k THEN <<k, v>> ELSE d[i]]
  ELSE Append(d, <<k, v>>)

---------------------------------------------------------------------------
(* Text: str as a sequence of characters *)

\* s[i:i+len(m)] == m
MatchAt(s, m, i) ==
  /\ i + Len(m) - 1 <= Len(s)
  /\ \A k \in 1..Len(m) : s[i + k - 1] = m[k]

\* m in s
Contains(m, s) == \E i \in 1..(Len(s) + 1) : MatchAt(s, m, i)

RECURSIVE ReplaceFrom(_, _, _, _)
ReplaceFrom(s, m, r, i) ==
  IF i > Len(s) THEN <<>>
  ELSE IF MatchAt(s, m, i) THEN r \o ReplaceFrom(s, m, r, i + Len(m))
  ELSE <<s[i]>> \o ReplaceFrom(s, m, r, i + 1)

RECURSIVE Interleave(_, _, _)
Interleave(s, r, i) ==
  IF i > Len(s) THEN r ELSE r \o <<s[i]>> \o Interleave(s, r, i + 1)

\* s.replace(m, r): every non-overlapping occurrence, left to right; an
\* empty m matches before every character and at the end
StrReplace(s, m, r) ==
  IF m = <<>> THEN Interleave(s, r, 1) ELSE ReplaceFrom(s, m, r, 1)

RECURSIVE LStrip(_)
LStrip(s) == IF s # <<>> /\ Head(s) = " " THEN LStrip(Tail(s)) ELSE s

RECURSIVE RStrip(_)
RStrip(s) ==
  IF s # <<>> /\ s[Len(s)] = " " THEN RStrip(SubSeq(s, 1, Len(s) - 1)) ELSE s

\* s.strip()
Strip(s) == LStrip(RStrip(s))

\* index of the first occurrence of m in s at or after i, 0 if none
RECURSIVE FindFrom(_, _, _)
FindFrom(s, m, i) ==
  IF i + Len(m) - 1 > Len(s) THEN 0
  ELSE IF MatchAt(s, m, i) THEN i
  ELSE FindFrom(s, m, i + 1)

\* s.split(sep) for a non-empty sep
RECURSIVE StrSplit(_, _)
StrSplit(s, sep) ==
  LET at == FindFrom(s, sep, 1)
  IN IF at = 0 THEN <<s>>
     ELSE <<SubSeq(s, 1, at - 1)>> \o StrSplit(SubSeq(s, at + Len(sep), Len(s)), sep)

\* s.split(sep, maxsplit=1)
StrSplitOnce(s, sep) ==
  LET at == FindFrom(s, sep, 1)
  IN IF at = 0 THEN <<s>>
     ELSE <<SubSeq(s, 1, at - 1), SubSeq(s, at + Len(sep), Len(s))>>

---------------------------------------------------------------------------
(* Step estimate *)

\* count_steps with `enable_hr = set.params.get(...) or grid_runner.p.enable_hr`:
\* an explicit False no longer overrides the request
count_steps_or_default(grid_runner_p, set_params) ==
  LET step_count0 == DictGet(set_params, "steps")
      step_count == IF step_count0 # None THEN PyInt(step_count0)
                    ELSE grid_runner_p.steps.int
      enable_hr == PyOr(DictGet(set_params, "enable highres fix"),
                        IF grid_runner_p.enable_hr # Absent
                        THEN grid_runner_p.enable_hr ELSE BoolV(FALSE))
      highres_steps0 == DictGet(set_params, "highres steps")
      highres_steps == IF highres_steps0 # None THEN PyInt(highres_steps0)
                       ELSE PyOr(grid_runner_p.hr_second_pass_steps,
                                 IntV(step_count)).int
  IN IF Truthy(enable_hr) THEN step_count + highres_steps ELSE step_count

\* a1111_grid_runner_count_steps(grid_runner, set): grid_runner_p is
\* grid_runner.p, set_params is set.params
a1111_grid_runner_count_steps(grid_runner_p, set_params) ==
  LET step_count0 == DictGet(set_params, "steps")
      step_count == IF step_count0 # None THEN PyInt(step_count0)
                    ELSE grid_runner_p.steps.int
      enable_hr0 == DictGet(set_params, "enable highres fix")
      enable_hr == IF enable_hr0 = None
                   THEN (IF grid_runner_p.enable_hr # Absent
                         THEN grid_runner_p.enable_hr ELSE BoolV(FALSE))
                   ELSE enable_hr0
      highres_steps0 == DictGet(set_params, "highres steps")
      highres_steps == IF highres_steps0 # None THEN PyInt(highres_steps0)
                       ELSE PyOr(grid_runner_p.hr_second_pass_steps,
                                 IntV(step_count)).int
  IN IF Truthy(enable_hr) THEN step_count + highres_steps ELSE step_count

---------------------------------------------------------------------------
(* Catalogs of the backend and names of the engine *)

\* sd_models.checkpoints_list titles
Checkpoints == {"A", "B"}
\* sd_vae.vae_dict keys
Vaes == {"V1", "V2"}
\* shared.face_restorers names
FaceRestorers == {"CodeFormer", "GFPGAN"}
\* None where a name is expected
NoName == "<None>"

\* clean_name / str.lower().strip() on the names the model uses
CleanName(name) ==
  CASE name = "GFPGAN" -> "gfpgan"
    [] name = "CodeFormer" -> "codeformer"
    [] name = "A" -> "a"
    [] name = "B" -> "b"
    [] name = "V1" -> "v1"
    [] name = "V2" -> "v2"
    [] name = "None" -> "none"
    [] name = "Auto" -> "auto"
    [] name = "Automatic" -> "automatic"
    [] name = "True" -> "true"
    [] name = "False" -> "false"
    [] OTHER -> name

\* clean_mode: lower case, blanks removed
clean_mode(param) ==
  CASE param = "prompt replace" -> "promptreplace"
    [] param = "Prompt Replace" -> "promptreplace"
    [] param = "negative prompt" -> "negativeprompt"
    [] param = "Width" -> "width"
    [] param = "out width" -> "outwidth"
    [] param = "out height" -> "outheight"
    [] param = "codeformer weight" -> "codeformerweight"
    [] param = "restore faces" -> "restorefaces"
    [] param = "use result index" -> "useresultindex"
    [] param = "enable highres fix" -> "enablehighresfix"
    [] param = "highres steps" -> "highressteps"
    [] param = "Model" -> "model"
    [] param = "VAE" -> "vae"
    [] param = "ClipSkip" -> "clipskip"
    [] param = "ETA Noise Seed Delta" -> "etanoiseseeddelta"
    [] param = "HighRes Checkpoint" -> "highrescheckpoint"
    [] OTHER -> param

\* get_best_in_list(name, list): the entry whose clean name is name's
get_best_in_list(name, list) ==
  IF \E e \in list : CleanName(e) = CleanName(name)
  THEN CHOOSE e \in list : CleanName(e) = CleanName(name)
  ELSE NoName

get_model_for(name) == get_best_in_list(name, Checkpoints)

get_vae_for(name) == get_best_in_list(name, Vaes)

---------------------------------------------------------------------------
(* Apply operations of the modes.  st is the state an apply can touch:   *)
(* the request p, the shared options opts and the weights the backend    *)
(* has loaded; err is set when the operation raises.                     *)

\* sd_models.reload_model_weights(): load what opts names
reload_model_weights(st) ==
  [st EXCEPT !.loaded.model = st.opts.sd_model_checkpoint,
             !.loaded.model_reloads = @ + 1]

\* sd_vae.reload_vae_weights(): load what opts names
reload_vae_weights(st) ==
  [st EXCEPT !.loaded.vae = st.opts.sd_vae, !.loaded.vae_reloads = @ + 1]

apply_model(st, v) ==
  reload_model_weights([st EXCEPT !.opts.sd_model_checkpoint = get_model_for(v)])

apply_vae(st, v) ==
  LET vae_name0 == CleanName(v)
      vae_name == IF vae_name0 = "none" THEN "None"
                  ELSE IF vae_name0 \in {"auto", "automatic"} THEN "Automatic"
                  ELSE get_vae_for(vae_name0)
  IN reload_vae_weights([st EXCEPT !.opts.sd_vae = vae_name])

\* float(v) on a number or a numeral, in tenths
PyFloat(v) ==
  IF IsInt(v) THEN v.int ELSE ParseDigits(SelectSeq(v.str, LAMBDA c : c # "."), 0)

apply_codeformer_weight(st, v) ==
  [st EXCEPT !.opts.code_former_weight = PyFloat(v)]

apply_restore_faces(st, v) ==
  LET input == CleanName(v)
      restorer == get_best_in_list(input, FaceRestorers)
  IN IF input = "false" THEN [st EXCEPT !.p.restore_faces = BoolV(FALSE)]
     ELSE IF restorer # NoName
     THEN [st EXCEPT !.p.restore_faces = BoolV(TRUE),
                     !.opts.face_restoration_model = restorer]
     ELSE [st EXCEPT !.p.restore_faces = BoolV(TRUE)]

\* prompt_replace_parse_list with `all` in the place of `any`
prompt_replace_parse_list_all(in_list) ==
  IF in_list = <<>> THEN [raised |-> "IndexError"]
  ELSE IF ~\A x \in 1..Len(in_list) : Contains(<<"=">>, in_list[x])
  THEN LET first_val == in_list[1]
       IN [returned |->
            [x \in 1..Len(in_list) |->
               [title |-> in_list[x],
                params |-> <<(<<"promptreplace", first_val \o <<"=">> \o in_list[x]>>)>>]]]
  ELSE [returned |-> [x \in 1..Len(in_list) |-> StrV(in_list[x])]]

\* prompt_replace_parse_list(in_list): what the call returns, its entries
\* str or dict, or the IndexError of in_list[0] on an empty list
prompt_replace_parse_list(in_list) ==
  IF in_list = <<>> THEN [raised |-> "IndexError"]
  ELSE IF ~\E x \in 1..Len(in_list) : Contains(<<"=">>, in_list[x])
  THEN LET first_val == in_list[1]
       IN [returned |->
            [x \in 1..Len(in_list) |->
               [title |-> in_list[x],
                params |-> <<(<<"promptreplace", first_val \o <<"=">> \o in_list[x]>>)>>]]]
  ELSE [returned |-> [x \in 1..Len(in_list) |-> StrV(in_list[x])]]

\* one pass of the loop of apply_prompt_replace over replacementInstructions[i..]
RECURSIVE prompt_replace_loop(_, _, _, _, _)
prompt_replace_loop(st, v, replacementInstructions, i, validate) ==
  IF i > Len(replacementInstructions) THEN st
  ELSE LET val == StrSplitOnce(v, <<"=">>)
       IN IF Len(val) # 2 THEN [st EXCEPT !.err = TRUE]
          ELSE LET match == Strip(val[1])
                   replace == Strip(val[2])
               IN IF /\ validate
                     /\ ~Contains(match, st.p.prompt)
                     /\ ~Contains(match, st.p.negative_prompt)
                  THEN [st EXCEPT !.err = TRUE]
                  ELSE prompt_replace_loop(
                         [st EXCEPT !.p.prompt = StrReplace(@, match, replace),
                                    !.p.negative_prompt = StrReplace(@, match, replace)],
                         v, replacementInstructions, i + 1, validate)

\* apply_prompt_replace(p, v); validate is Script.VALIDATE_REPLACE
apply_prompt_replace(st, v, validate) ==
  LET parts == StrSplit(v, <<"&", "&">>)
      replacementInstructions == [i \in 1..Len(parts) |-> Strip(parts[i])]
  IN prompt_replace_loop(st, v, replacementInstructions, 1, validate)

apply_enable_hr(st, v) ==
  IF Truthy(v) /\ st.p.denoising_strength = None
  THEN [st EXCEPT !.p.enable_hr = v, !.p.denoising_strength = IntV(75)]
  ELSE [st EXCEPT !.p.enable_hr = v]

\* apply_setting_override(name)(p, v)
apply_setting_override(name, st, v) ==
  [st EXCEPT !.p.override_settings = DictSet(@, name, v)]

\* gridgencore.apply_field(name)(p, v)
apply_field(name, st, v) == [st EXCEPT !.p[name] = v]

\* the dry flag of the registered modes: False for Model, VAE, ClipSkip
\* and HighRes Checkpoint
mode_dry(cleaned) == cleaned \notin {"model", "vae", "clipskip", "highrescheckpoint"}

\* mode.apply(p, val) for the mode registered under the cleaned name
mode_apply(cleaned, st, v, validate) ==
  CASE cleaned = "model" -> apply_model(st, v)
    [] cleaned = "vae" -> apply_vae(st, v)
    [] cleaned = "seed" -> apply_field("seed", st, v)
    [] cleaned = "steps" -> apply_field("steps", st, v)
    [] cleaned = "width" -> apply_field("width", st, v)
    [] cleaned = "height" -> apply_field("height", st, v)
    [] cleaned = "prompt" -> apply_field("prompt", st, v)
    [] cleaned = "negativeprompt" -> apply_field("negative_prompt", st, v)
    [] cleaned = "promptreplace" -> apply_prompt_replace(st, v, validate)
    [] cleaned = "clipskip" ->
         apply_setting_override("CLIP_stop_at_last_layers", st, v)
    [] cleaned = "outwidth" -> apply_field("inf_grid_out_width", st, v)
    [] cleaned = "outheight" -> apply_field("inf_grid_out_height", st, v)
    [] cleaned = "restorefaces" -> apply_restore_faces(st, v)
    [] cleaned = "codeformerweight" -> apply_codeformer_weight(st, v)
    [] cleaned = "enablehighresfix" -> apply_enable_hr(st, v)
    [] cleaned = "highressteps" -> apply_field("hr_second_pass_steps", st, v)
    [] cleaned = "useresultindex" ->
         apply_field("inf_grid_use_result_index", st, v)
    [] cleaned = "etanoiseseeddelta" ->
         apply_setting_override("eta_noise_seed_delta", st, v)
    [] cleaned = "highrescheckpoint" -> apply_field("hr_checkpoint_name", st, v)

---------------------------------------------------------------------------
(* Hooks of one grid call *)

\* a1111_grid_call_init_hook(grid_call)
a1111_grid_call_init_hook(grid_call) == [grid_call EXCEPT !.replacements = <<>>]

PyMin(a, b) == IF b < a THEN b ELSE a

\* the param-add hook without its text-substitution branch: the value is
\* left to the engine's per-axis apply
param_add_hook_not_deferred(grid, grid_call, param, value) ==
  LET g1 == IF grid.min_width = None
            THEN [grid EXCEPT !.min_width = grid.initial_p.width] ELSE grid
      g2 == IF g1.min_height = None
            THEN [g1 EXCEPT !.min_height = g1.initial_p.height] ELSE g1
  IN [grid |-> g2, grid_call |-> grid_call, ret |-> FALSE]

\* the param-add hook without the seeding from the request's base sizes
param_add_hook_unseeded(grid, grid_call, param, value) ==
  LET cleaned == clean_mode(param)
  IN IF cleaned = "promptreplace"
     THEN [grid |-> grid,
           grid_call |-> [grid_call EXCEPT !.replacements = Append(@, value)],
           ret |-> TRUE]
     ELSE IF cleaned \in {"width", "outwidth"}
     THEN [grid |-> [grid EXCEPT !.min_width =
                       IntV(PyMin(PyOr(grid.min_width, IntV(99999)).int, PyInt(value)))],
           grid_call |-> grid_call, ret |-> FALSE]
     ELSE IF cleaned \in {"height", "outheight"}
     THEN [grid |-> [grid EXCEPT !.min_height =
                       IntV(PyMin(PyOr(grid.min_height, IntV(99999)).int, PyInt(value)))],
           grid_call |-> grid_call, ret |-> FALSE]
     ELSE [grid |-> grid, grid_call |-> grid_call, ret |-> FALSE]

\* a1111_grid_call_param_add_hook(grid_call, param, value): the grid and
\* the call after it, and the value it returns
a1111_grid_call_param_add_hook(grid, grid_call, param, value) ==
  LET g1 == IF grid.min_width = None
            THEN [grid EXCEPT !.min_width = grid.initial_p.width] ELSE grid
      g2 == IF g1.min_height = None
            THEN [g1 EXCEPT !.min_height = g1.initial_p.height] ELSE g1
      cleaned == clean_mode(param)
  IN IF cleaned = "promptreplace"
     THEN [grid |-> g2,
           grid_call |-> [grid_call EXCEPT !.replacements = Append(@, value)],
           ret |-> TRUE]
     ELSE IF cleaned \in {"width", "outwidth"}
     THEN [grid |-> [g2 EXCEPT !.min_width =
                       IntV(PyMin(PyOr(g2.min_width, IntV(99999)).int, PyInt(value)))],
           grid_call |-> grid_call, ret |-> FALSE]
     ELSE IF cleaned \in {"height", "outheight"}
     THEN [grid |-> [g2 EXCEPT !.min_height =
                       IntV(PyMin(PyOr(g2.min_height, IntV(99999)).int, PyInt(value)))],
           grid_call |-> grid_call, ret |-> FALSE]
     ELSE [grid |-> g2, grid_call |-> grid_call, ret |-> FALSE]

RECURSIVE replay_from(_, _, _, _)
replay_from(replacements, st, i, validate) ==
  IF i > Len(replacements) \/ st.err THEN st
  ELSE replay_from(replacements,
                   apply_prompt_replace(st, replacements[i], validate),
                   i + 1, validate)

RECURSIVE replay_down_from(_, _, _, _)
replay_down_from(replacements, st, i, validate) ==
  IF i < 1 \/ st.err THEN st
  ELSE replay_down_from(replacements,
                        apply_prompt_replace(st, replacements[i], validate),
                        i - 1, validate)

\* the apply hook replaying the recorded substitutions last to first
apply_hook_reversed(grid_call, st, validate) ==
  replay_down_from(grid_call.replacements, st, Len(grid_call.replacements), validate)

\* a1111_grid_call_apply_hook(grid_call, p, dry)
a1111_grid_call_apply_hook(grid_call, st, validate) ==
  replay_from(grid_call.replacements, st, 1, validate)

\* SingleGridCall.flatten_params, one axis value: the hook decides whether
\* the engine keeps the value for the per-axis apply
flatten_param(grid, grid_call, param, value) ==
  LET r == a1111_grid_call_param_add_hook(grid, grid_call, param, value)
  IN IF r.ret THEN r
     ELSE [r EXCEPT !.grid_call.params = DictSet(@, param, value)]

RECURSIVE apply_params_from(_, _, _, _, _)
apply_params_from(params, st, i, dry, validate) ==
  IF i > Len(params) \/ st.err THEN st
  ELSE LET cleaned == clean_mode(params[i][1])
       IN apply_params_from(
            params,
            IF ~dry \/ mode_dry(cleaned)
            THEN mode_apply(cleaned, st, params[i][2], validate) ELSE st,
            i + 1, dry, validate)

\* SingleGridCall.apply_to(p, dry): every kept axis value, then the hook
apply_to(grid_call, st, dry, validate) ==
  LET st1 == apply_params_from(grid_call.params, st, 1, dry, validate)
  IN IF st1.err THEN st1 ELSE a1111_grid_call_apply_hook(grid_call, st1, validate)

---------------------------------------------------------------------------
(* Validation of axis values *)

\* gridgencore.choose_better_file_name(raw_name, full_name)
choose_better_file_name(raw_name, full_name) == full_name

\* what a RuntimeError of a clean operation tells: the parameter, the
\* value, the valid names
InvalidParameter(p, v, valid) ==
  [err |-> TRUE, value |-> None, error |-> [p |-> p, v |-> v, valid |-> valid]]

\* a clean operation returns
Cleaned(value) == [err |-> FALSE, value |-> value, error |-> None]

\* clean_model handing the value on when the catalog has no such name
clean_model_unchecked(p, v) ==
  LET actual_model == get_model_for(v)
  IN IF actual_model = NoName THEN Cleaned(v)
     ELSE Cleaned(choose_better_file_name(v, actual_model))

\* clean_model(p, v): raises when the name is not in the catalog
clean_model(p, v) ==
  LET actual_model == get_model_for(v)
  IN IF actual_model = NoName THEN InvalidParameter(p, v, Checkpoints)
     ELSE Cleaned(choose_better_file_name(v, actual_model))

\* clean_vae(p, v)
clean_vae(p, v) ==
  LET vae_name == CleanName(v)
      actual_vae == get_vae_for(vae_name)
  IN IF vae_name \in {"none", "auto", "automatic"} THEN Cleaned(vae_name)
     ELSE IF actual_vae = NoName THEN InvalidParameter(p, v, Vaes)
     ELSE Cleaned(choose_better_file_name(v, actual_vae))

\* mode.clean(p, v) of the mode registered under the cleaned name
mode_clean(cleaned, p, v) ==
  CASE cleaned \in {"model", "highrescheckpoint"} -> clean_model(p, v)
    [] cleaned = "vae" -> clean_vae(p, v)
    [] OTHER -> Cleaned(v)

---------------------------------------------------------------------------
(* Hooks of the grid runner *)

\* the pre-run hook without `state.processing_has_refined_job_count = True`
pre_run_hook_not_refined(total_run, total_steps) ==
  [job_count |-> total_run, total |-> total_steps, refined |-> FALSE]

\* a1111_grid_runner_pre_run_hook(grid_runner)
a1111_grid_runner_pre_run_hook(total_run, total_steps) ==
  [job_count |-> total_run, total |-> total_steps, refined |-> TRUE]

\* process_images(p), its effect on the progress total: the backend counts
\* the steps of the request anew unless the job count is marked as refined
process_images_total(pr, p) ==
  IF pr.refined THEN pr
  ELSE [pr EXCEPT !.total = a1111_grid_runner_count_steps(p, EmptyDict),
                  !.refined = TRUE]

\* a1111_grid_runner_pre_dry_hook(grid_runner): the new grid_runner.temp
a1111_grid_runner_pre_dry_hook(o) ==
  [old_codeformer_weight |-> o.code_former_weight,
   old_face_restorer |-> o.face_restoration_model,
   old_vae |-> o.sd_vae,
   old_model |-> o.sd_model_checkpoint]

\* a seed handed on as it is
get_fixed_seed_kept(seed, draw) == seed

\* processing.get_fixed_seed(seed): draw is the random seed it would pick
get_fixed_seed(seed, draw) ==
  IF seed = None \/ seed = IntV(-1) THEN IntV(draw) ELSE seed

\* processing.create_infotext(p, [p.prompt], [p.seed], [p.subseed], []):
\* the text names the request's prompt and seeds and the options in force
create_infotext(p, o) ==
  [prompt |-> p.prompt, seed |-> p.seed, subseed |-> p.subseed,
   model |-> o.sd_model_checkpoint, vae |-> o.sd_vae,
   face |-> IF Truthy(p.restore_faces) THEN o.face_restoration_model ELSE NoName]

\* the result index taken as configured, whatever the number of images
select_result_index_unclamped(p, n) ==
  IF p.inf_grid_use_result_index = Absent THEN 0
  ELSE p.inf_grid_use_result_index.int

\* the result index post-processing uses for n images
select_result_index(p, n) ==
  LET result_index == IF p.inf_grid_use_result_index = Absent THEN 0
                      ELSE p.inf_grid_use_result_index.int
  IN IF result_index >= n THEN n - 1 ELSE result_index

\* the image post-processing hands on: resized when both out sizes are set
finish_image(p, cell, result_index) ==
  [cell |-> cell, index |-> result_index,
   size |-> IF p.inf_grid_out_width # Absent /\ p.inf_grid_out_height # Absent
            THEN <<p.inf_grid_out_width, p.inf_grid_out_height>> ELSE <<>>]

\* a render without images let through
zero_images_pass(r) == r

\* `raise RuntimeError` on a render without images
zero_images_raise(r) == [r EXCEPT !.raised = TRUE]

\* the writes that close post_dry_hook: temp goes back into opts
restore_settings(o, tmp) ==
  [o EXCEPT !.code_former_weight = tmp.old_codeformer_weight,
            !.face_restoration_model = tmp.old_face_restorer,
            !.sd_vae = tmp.old_vae,
            !.sd_model_checkpoint = tmp.old_model]

\* no thread started for the save
Thread_not_started(job) == {}

\* threading.Thread(target=save_offthread).start(): the threads started
Thread_start(job) == {job}

\* a1111_grid_runner_post_dry_hook(grid_runner, p, set): n is the number of
\* images process_images returns, -1 when it raises; d1, d2 are the seeds
\* get_fixed_seed would draw
a1111_grid_runner_post_dry_hook(st, tmp, set, format, n, d1, d2) ==
  LET p1 == [st.p EXCEPT !.seed = get_fixed_seed(st.p.seed, d1),
                         !.subseed = get_fixed_seed(st.p.subseed, d2)]
      r0 == [raised |-> FALSE, p |-> p1, opts |-> st.opts, temp |-> tmp,
             started |-> {}, dirs |-> {}, selected |-> -1]
      result_index == select_result_index(p1, n)
      img == finish_image(p1, set.cell, result_index)
      job == [img |-> img, path |-> set.filepath.dir, name |-> set.filepath.name,
              info |-> create_infotext(p1, st.opts), ext |-> format,
              p |-> set.cell, prompt |-> p1.prompt, seed |-> p1.seed]
  IN IF n < 0 THEN [r0 EXCEPT !.raised = TRUE]
     ELSE IF n < 1 THEN zero_images_raise(r0)
     ELSE IF result_index >= n \/ result_index < 0 - n
     THEN [r0 EXCEPT !.raised = TRUE, !.dirs = {set.filepath.dir}]
     ELSE [r0 EXCEPT !.dirs = {set.filepath.dir}, !.selected = result_index,
                     !.started = Thread_start(job),
                     !.opts = restore_settings(st.opts, tmp), !.temp = None]

\* a save that reads the options in force when the thread runs
save_offthread_late(job, o) ==
  [img |-> job.img,
   info |-> [job.info EXCEPT !.model = o.sd_model_checkpoint, !.vae = o.sd_vae],
   ext |-> job.ext, prompt |-> job.prompt, seed |-> job.seed]

\* save_offthread(): the file images.save_image writes; o is shared.opts
\* when the thread runs
save_offthread(job, o) ==
  [img |-> job.img, info |-> job.info, ext |-> job.ext,
   prompt |-> job.prompt, seed |-> job.seed]

---------------------------------------------------------------------------
(* The whole-run guard *)

\* SettingsFixer.__enter__
SettingsFixer_enter(o) ==
  [model |-> o.sd_model_checkpoint, code_former_weight |-> o.code_former_weight,
   face_restoration_model |-> o.face_restoration_model, vae |-> o.sd_vae]

\* the guard reloading the weights before it writes the values back
exit_reload_before_write_back(self, st) ==
  LET r == reload_vae_weights(reload_model_weights(st))
  IN [r EXCEPT !.opts.code_former_weight = self.code_former_weight,
               !.opts.face_restoration_model = self.face_restoration_model,
               !.opts.sd_vae = self.vae,
               !.opts.sd_model_checkpoint = self.model]

\* SettingsFixer.__exit__: st holds opts and the loaded weights
SettingsFixer_exit(self, st) ==
  reload_vae_weights(reload_model_weights(
    [st EXCEPT !.opts.code_former_weight = self.code_former_weight,
               !.opts.face_restoration_model = self.face_restoration_model,
               !.opts.sd_vae = self.vae,
               !.opts.sd_model_checkpoint = self.model]))

---------------------------------------------------------------------------
(* Initialization: try_init and the registry of modes *)

\* the names try_init registers, in its order
CoreModes ==
  <<"Model", "VAE", "Sampler", "Scheduler", "Seed", "Steps", "CFG Scale",
    "Width", "Height", "Prompt", "Negative Prompt", "Prompt Replace",
    "Styles", "Var Seed", "Var Strength", "ClipSkip", "Denoising", "ETA",
    "Sigma Churn", "Sigma TMin", "Sigma TMax", "Sigma Noise", "Out Width",
    "Out Height", "Restore Faces", "CodeFormer Weight", "Tiling",
    "Image Mask Weight", "ETA Noise Seed Delta", "Enable HighRes Fix",
    "HighRes Scale", "HighRes Steps", "HighRes Resize Width",
    "HighRes Resize Height", "HighRes Upscale to Width",
    "HighRes Upscale to Height", "HighRes Upscaler", "HighRes Sampler",
    "HighRes Checkpoint", "Image CFG Scale", "Use Result Index">>

\* the names registered when the dynamic-thresholding extension is present
DynamicThresholdModes ==
  <<"[DynamicThreshold] Enable", "[DynamicThreshold] Mimic Scale",
    "[DynamicThreshold] Threshold Percentile",
    "[DynamicThreshold] Mimic Mode", "[DynamicThreshold] CFG Mode",
    "[DynamicThreshold] Mimic Scale Minimum",
    "[DynamicThreshold] CFG Scale Minimum",
    "[DynamicThreshold] Experiment Mode",
    "[DynamicThreshold] Scheduler Value",
    "[DynamicThreshold] Scaling Startpoint",
    "[DynamicThreshold] Variability Measure",
    "[DynamicThreshold] Interpolate Phi",
    "[DynamicThreshold] Separate Feature Channels">>

\* the names registered when the ControlNet extension is present
ControlNetModes ==
  <<"[ControlNet] Enable", "[ControlNet] Preprocessor",
    "[ControlNet] Model", "[ControlNet] Weight",
    "[ControlNet] Guidance Strength", "[ControlNet] Annotator Resolution",
    "[ControlNet] Threshold A", "[ControlNet] Threshold B",
    "[ControlNet] Image">>

\* registerMode(name, mode): r is the registry, the names registerMode was
\* called with, and whether a call raised; a name the registry holds is
\* refused
registerMode(r, name) ==
  IF \E i \in 1..Len(r.registry) : r.registry[i] = name
  THEN [r EXCEPT !.attempts = Append(@, name), !.err = TRUE]
  ELSE [r EXCEPT !.attempts = Append(@, name), !.registry = Append(@, name)]

\* the registerMode calls of names[i..], up to the first that raises
RECURSIVE register_from(_, _, _)
register_from(r, names, i) ==
  IF i > Len(names) \/ r.err THEN r
  ELSE register_from(registerMode(r, names[i]), names, i + 1)

\* try_init without the has_inited check
try_init_unguarded(self, env) ==
  LET r0 == [registry |-> self.registry, attempts |-> self.attempts, err |-> FALSE]
      core == register_from(r0, CoreModes, 1)
      dyn == IF env.dynthres THEN register_from(core, DynamicThresholdModes, 1)
             ELSE core
      cn == IF dyn.err \/ env.controlnet = "absent" THEN dyn
            ELSE IF env.controlnet = "broken" THEN [dyn EXCEPT !.err = TRUE]
            ELSE register_from(dyn, ControlNetModes, 1)
      base == [self EXCEPT !.has_inited = TRUE, !.hooks = @ + 1]
  IN IF core.err
     THEN [ini |-> [base EXCEPT !.registry = core.registry,
                                !.attempts = core.attempts],
           raised |-> TRUE]
     ELSE [ini |-> [base EXCEPT !.registry = cn.registry,
                                !.attempts = cn.attempts,
                                !.swallowed = @ + (IF cn.err THEN 1 ELSE 0)],
           raised |-> FALSE]

\* try_init(): self is has_inited, the hooks installed, the registry; env
\* tells which companion extensions the backend has loaded.  The result is
\* the state after the call and whether the call raised.
try_init(self, env) ==
  IF self.has_inited THEN [ini |-> self, raised |-> FALSE]
  ELSE LET r0 == [registry |-> self.registry, attempts |-> self.attempts,
                  err |-> FALSE]
           core == register_from(r0, CoreModes, 1)
           dyn == IF env.dynthres THEN register_from(core, DynamicThresholdModes, 1)
                  ELSE core
           cn == IF dyn.err \/ env.controlnet = "absent" THEN dyn
                 ELSE IF env.controlnet = "broken" THEN [dyn EXCEPT !.err = TRUE]
                 ELSE register_from(dyn, ControlNetModes, 1)
           base == [self EXCEPT !.has_inited = TRUE, !.hooks = @ + 1]
       IN IF core.err
          THEN [ini |-> [base EXCEPT !.registry = core.registry,
                                     !.attempts = core.attempts],
                raised |-> TRUE]
          ELSE [ini |-> [base EXCEPT !.registry = cn.registry,
                                     !.attempts = cn.attempts,
                                     !.swallowed = @ + (IF cn.err THEN 1 ELSE 0)],
                raised |-> FALSE]

\* a call of try_init from ui() or run(): the call is logged
call_try_init(self, caller) ==
  LET t == try_init(self, self.env)
  IN [t.ini EXCEPT !.calls = Append(@, caller),
                   !.raised = IF t.raised THEN @ \cup {Len(self.calls) + 1} ELSE @]

\* the module is loaded: has_inited = False, nothing registered by it;
\* foreign is what the registry holds already
FreshInit(env, foreign) ==
  [has_inited |-> FALSE, hooks |-> 0, registry |-> foreign, attempts |-> <<>>,
   swallowed |-> 0, env |-> env, calls |-> <<>>, raised |-> {}]

\* ui() has run in a backend without companion extensions
InitAfterUi ==
  call_try_init(FreshInit([dynthres |-> FALSE, controlnet |-> "absent"], <<>>), "ui")

---------------------------------------------------------------------------
(* Texts used as inputs *)

T_a_cat_sits == <<"a", " ", "c", "a", "t", " ", "s", "i", "t", "s">>
T_a_dog_sits == <<"a", " ", "d", "o", "g", " ", "s", "i", "t", "s">>
T_a_fox_sits == <<"a", " ", "f", "o", "x", " ", "s", "i", "t", "s">>
T_dog == <<"d", "o", "g">>
T_cat == <<"c", "a", "t">>
T_cat_dog == <<"c", "a", "t", "=", "d", "o", "g">>
T_dog_fox == <<"d", "o", "g", "=", "f", "o", "x">>
T_cat_dog_and_sits_runs == <<"c", "a", "t", "=", "d", "o", "g", " ", "&", "&", " ", "s", "i", "t", "s", "=", "r", "u", "n", "s">>
T_768 == <<"7", "6", "8">>
T_15 == <<"1", "5">>
T_5 == <<"5">>
T_0_9 == <<"0", ".", "9">>
T_grid_yml == <<"g", "r", "i", "d", ".", "y", "m", "l">>
T_up_grid_yml == <<".", ".", "/", "g", "r", "i", "d", ".", "y", "m", "l">>
T_create_in_ui == <<"C", "r", "e", "a", "t", "e", " ", "i", "n", " ", "U", "I">>
T_out == <<"o", "u", "t">>
T_up_out == <<".", ".", "/", "o", "u", "t">>

---------------------------------------------------------------------------
(* State *)

VARIABLES
  opts,             \* shared.opts: the four shared values
  loaded,           \* the weights the backend has loaded, and reload counts
  VALIDATE_REPLACE, \* Script.VALIDATE_REPLACE
  est,              \* count_steps: its inputs and its result
  md,               \* one mode operation: its inputs and its result
  ini,              \* has_inited, the hooks, the registry, the try_init calls
  ov,               \* the override map of the request over the copies of a run
  h_pc,             \* one grid call: where the engine is with it
  h_grid,           \* one grid call: grid_call.grid
  h_call,           \* one grid call: replacements and params
  h_st,             \* one grid call: the request, opts and backend
  h_pre,            \* one grid call: the request when the apply hook began
  h_axes,           \* one grid call: the axis values added, in order
  h_count,          \* grid calls made so far in this grid
  pc,               \* Script.run: where the main thread is
  args,             \* Script.run: its arguments, until the engine has them
  dry,              \* run_grid_gen: the dry_run flag
  pre_dry_first,    \* GridRunner.run: pre_dry hook before apply_to, or after
  fixer,            \* the SettingsFixer of the run
  run_p,            \* Script.run: its copy of the request
  grid,             \* the grid and its runner: sizes, format, totals
  sets,             \* GridRunner: the coordinates
  idx,              \* GridRunner.run: the coordinate at hand
  cur,              \* GridRunner.run: that coordinate's request
  temp,             \* grid_runner.temp
  exc,              \* an exception is unwinding out of run_grid_gen
  cancelled,        \* the engine stopped the run at a coordinate boundary
  skipped,          \* the coordinates the engine chose to skip
  progress,         \* state.job_count and the progress total
  threads,          \* save threads started and not yet run
  disk,             \* directories made and files written
  obs               \* what each finished coordinate did

run_vars == <<pc, args, dry, pre_dry_first, skipped, fixer, run_p, grid, sets, idx, cur,
              temp, exc, cancelled, progress, threads, disk, obs>>

vars == <<opts, loaded, VALIDATE_REPLACE, est, md, ini, ov, h_pc, h_grid, h_call, h_st,
          h_pre, h_axes, h_count, pc, args, dry, pre_dry_first, skipped, fixer,
          run_p,
          grid, sets, idx, cur, temp, exc, cancelled, progress, threads, disk,
          obs>>

shared_vars == <<opts, loaded>>

call_vars == <<h_pc, h_grid, h_call, h_st, h_pre, h_axes, h_count>>

\* the request the user interface hands to run()
BaseRequest ==
  [prompt |-> T_a_cat_sits, negative_prompt |-> T_dog,
   seed |-> IntV(-1), subseed |-> IntV(4), steps |-> IntV(20),
   width |-> IntV(512), height |-> IntV(512),
   enable_hr |-> BoolV(FALSE), hr_second_pass_steps |-> IntV(0),
   denoising_strength |-> None, restore_faces |-> BoolV(FALSE),
   n_iter |-> IntV(2), batch_size |-> IntV(2),
   do_not_save_samples |-> BoolV(FALSE), do_not_save_grid |-> BoolV(FALSE),
   override_settings |-> EmptyDict, hr_checkpoint_name |-> NoName,
   inf_grid_use_result_index |-> Absent,
   inf_grid_out_width |-> Absent, inf_grid_out_height |-> Absent]

InitOpts ==
  [sd_model_checkpoint |-> "A", sd_vae |-> "Automatic",
   code_former_weight |-> 5, face_restoration_model |-> "CodeFormer"]

InitLoaded ==
  [model |-> "A", vae |-> "Automatic", model_reloads |-> 0, vae_reloads |-> 0]

\* nothing of the harness for one grid call is in use
CallIdle ==
  /\ h_pc = "off"
  /\ h_grid = None
  /\ h_call = None
  /\ h_st = None
  /\ h_pre = None
  /\ h_axes = <<>>
  /\ h_count = 0

EstIdle == est = None

ModeIdle == md = None

OvIdle == ov = None

\* ui() has called try_init
Inited == ini = InitAfterUi

NoFiles == [x \in {} |-> None]

\* Script.run has not been called
RunIdle ==
  /\ pc = "idle"
  /\ args = None
  /\ dry = FALSE
  /\ fixer = None
  /\ run_p = None
  /\ grid = None
  /\ sets = <<>>
  /\ idx = 0
  /\ cur = None
  /\ temp = None
  /\ exc = FALSE
  /\ cancelled = FALSE
  /\ skipped = {}
  /\ progress = [job_count |-> 0, total |-> 0, refined |-> FALSE]
  /\ threads = {}
  /\ disk = [dirs |-> {}, files |-> NoFiles]
  /\ obs = <<>>

---------------------------------------------------------------------------
(* Step estimate of a coordinate, over drawn inputs *)

EstRequests ==
  {[BaseRequest EXCEPT !.steps = IntV(s), !.enable_hr = e,
                       !.hr_second_pass_steps = IntV(h)] :
     s \in {20, 30}, e \in {Absent, BoolV(TRUE), BoolV(FALSE)}, h \in {0, 10}}

\* the dict with the given values under the given keys, None meaning unset
DictOf(keys, vals) ==
  SelectSeq([i \in 1..Len(keys) |-> <<keys[i], vals[i]>>], LAMBDA kv : kv[2] # None)

EstParams ==
  {DictOf(<<"steps", "enable highres fix", "highres steps">>, <<s, e, h>>) :
     s \in {None, IntV(20), IntV(0), StrV(T_15)},
     e \in {None, BoolV(TRUE), BoolV(FALSE)},
     h \in {None, IntV(10), IntV(0), StrV(T_5)}}

InitSteps ==
  /\ opts = InitOpts
  /\ loaded = InitLoaded
  /\ VALIDATE_REPLACE = TRUE
  /\ CallIdle
  /\ RunIdle
  /\ ModeIdle
  /\ OvIdle
  /\ Inited
  /\ pre_dry_first = TRUE
  /\ est \in {[p |-> p, params |-> d, out |-> None] : p \in EstRequests, d \in EstParams}

\* the engine asks for the estimate of one set
CountSteps ==
  /\ est.out = None
  /\ est' = [est EXCEPT !.out = IntV(a1111_grid_runner_count_steps(est.p, est.params))]
  /\ UNCHANGED <<run_vars, shared_vars, VALIDATE_REPLACE, md, ov, ini, call_vars>>

NextSteps == CountSteps

SpecSteps == InitSteps /\ [][NextSteps]_vars

---------------------------------------------------------------------------
(* One grid's calls: init hook, param-add hook per axis value, apply *)

\* axis values a grid file can give a coordinate
CallInputs ==
  { <<"prompt replace", T_cat_dog>>, <<"prompt replace", T_dog_fox>>,
    <<"prompt replace", T_cat_dog_and_sits_runs>>,
    <<"prompt", T_a_dog_sits>>, <<"negative prompt", T_a_cat_sits>>,
    <<"width", IntV(768)>>, <<"width", StrV(T_768)>>, <<"width", IntV(512)>>,
    <<"out width", IntV(0)>>, <<"height", IntV(256)>>, <<"out height", IntV(0)>> }

InitCall ==
  /\ opts = InitOpts
  /\ loaded = InitLoaded
  /\ VALIDATE_REPLACE \in BOOLEAN
  /\ EstIdle
  /\ ModeIdle
  /\ OvIdle
  /\ Inited
  /\ RunIdle
  /\ pre_dry_first = TRUE
  /\ h_pc = "new"
  /\ h_grid \in {[min_width |-> None, min_height |-> None,
                  initial_p |-> [BaseRequest EXCEPT !.width = IntV(w)]] :
                   w \in {512, 1024}}
  /\ h_call = None
  /\ h_st = None
  /\ h_pre = None
  /\ h_axes = <<>>
  /\ h_count = 0

\* SingleGridCall(values): a fresh call, and the copy of the request it
\* will be applied to
CallInit ==
  /\ h_pc \in {"new", "applied"}
  /\ h_count < MaxSets
  /\ h_call' = a1111_grid_call_init_hook([replacements |-> None, params |-> EmptyDict])
  /\ h_st' = [p |-> h_grid.initial_p, opts |-> opts, loaded |-> loaded, err |-> FALSE]
  /\ h_pre' = None
  /\ h_axes' = <<>>
  /\ h_count' = h_count + 1
  /\ h_pc' = "add"
  /\ UNCHANGED <<run_vars, shared_vars, VALIDATE_REPLACE, est, ov, ini, md, h_grid>>

\* flatten_params adds one axis value
CallParamAdd ==
  /\ h_pc = "add"
  /\ Len(h_axes) < MaxAxes
  /\ \E pv \in CallInputs :
       LET r == flatten_param(h_grid, h_call, pv[1], pv[2])
       IN /\ h_grid' = r.grid
          /\ h_call' = r.grid_call
          /\ h_axes' = Append(h_axes, pv)
  /\ UNCHANGED <<run_vars, shared_vars, VALIDATE_REPLACE, est, ov, ini, md, h_pc, h_st, h_pre, h_count>>

\* apply_to(p, dry)
CallApply ==
  /\ h_pc = "add"
  /\ h_pre' = apply_params_from(h_call.params, h_st, 1, FALSE, VALIDATE_REPLACE).p
  /\ h_st' = apply_to(h_call, h_st, FALSE, VALIDATE_REPLACE)
  /\ h_pc' = "applied"
  /\ UNCHANGED <<run_vars, shared_vars, VALIDATE_REPLACE, est, ov, ini, md, h_grid, h_call, h_axes, h_count>>

NextCall == CallInit \/ CallParamAdd \/ CallApply

SpecCall == InitCall /\ [][NextCall]_vars

---------------------------------------------------------------------------
(* Calls of try_init, from ui() and from run(), in any number and order *)

MaxInitCalls == 3

\* the companion extensions the backend has loaded; a broken ControlNet
\* raises when its preprocessors are listed
InitEnvs ==
  [dynthres : BOOLEAN, controlnet : {"absent", "present", "broken"}]

\* what the registry can hold when the module is loaded
ForeignModes ==
  { <<>>, <<"Steps">>, <<"Use Result Index">>, <<"[DynamicThreshold] Enable">>,
    <<"[ControlNet] Weight">> }

InitInit ==
  /\ opts = InitOpts
  /\ loaded = InitLoaded
  /\ VALIDATE_REPLACE = TRUE
  /\ EstIdle
  /\ ModeIdle
  /\ OvIdle
  /\ CallIdle
  /\ RunIdle
  /\ pre_dry_first = TRUE
  /\ ini \in {FreshInit(env, foreign) : env \in InitEnvs, foreign \in ForeignModes}

\* Script.ui or Script.run calls try_init
TryInit ==
  /\ Len(ini.calls) < MaxInitCalls
  /\ \E caller \in {"ui", "run"} : ini' = call_try_init(ini, caller)
  /\ UNCHANGED <<run_vars, shared_vars, VALIDATE_REPLACE, est, ov, md, call_vars>>

NextInit == TryInit

SpecInit == InitInit /\ [][NextInit]_vars

---------------------------------------------------------------------------
(* One operation of a registered mode, over drawn inputs *)

\* parameter names and raw values a clean operation can be given
CleanInputs ==
  { <<"Model", "A">>, <<"Model", "b">>, <<"Model", "Z">>, <<"Model", "V1">>,
    <<"HighRes Checkpoint", "B">>, <<"HighRes Checkpoint", "Z">>,
    <<"HighRes Checkpoint", "none">>,
    <<"VAE", "V1">>, <<"VAE", "v2">>, <<"VAE", "None">>, <<"VAE", "Auto">>,
    <<"VAE", "automatic">>, <<"VAE", "Z">>, <<"VAE", "A">>,
    <<"steps", IntV(30)>> }

\* parameter names and cleaned values an apply operation can be given
ApplyInputs ==
  { <<"Model", "A">>, <<"Model", "B">>,
    <<"VAE", "V1">>, <<"VAE", "V2">>, <<"VAE", "None">>, <<"VAE", "Auto">>,
    <<"ClipSkip", IntV(2)>>, <<"ETA Noise Seed Delta", IntV(31337)>>,
    <<"HighRes Checkpoint", "B">>,
    <<"seed", IntV(7)>>, <<"steps", IntV(30)>>, <<"steps", IntV(20)>>,
    <<"width", IntV(768)>>, <<"height", IntV(256)>>,
    <<"prompt", T_a_dog_sits>>, <<"negative prompt", T_a_cat_sits>>,
    <<"out width", IntV(640)>>, <<"out height", IntV(0)>>,
    <<"highres steps", IntV(10)>>, <<"use result index", IntV(1)>>,
    <<"enable highres fix", BoolV(TRUE)>>, <<"enable highres fix", BoolV(FALSE)>>,
    <<"restore faces", "GFPGAN">>, <<"restore faces", "CodeFormer">>,
    <<"restore faces", "True">>, <<"restore faces", "False">>,
    <<"codeformer weight", StrV(T_0_9)>>, <<"codeformer weight", StrV(T_5)>>,
    <<"prompt replace", T_cat_dog>>, <<"prompt replace", T_dog_fox>>,
    <<"prompt replace", T_cat_dog_and_sits_runs>> }

\* the request, the options and the backend an apply can meet
ApplyStates ==
  {[p |-> [BaseRequest EXCEPT !.denoising_strength = d],
    opts |-> [InitOpts EXCEPT !.sd_model_checkpoint = c.model, !.sd_vae = c.vae],
    loaded |-> [InitLoaded EXCEPT !.model = c.model, !.vae = c.vae],
    err |-> FALSE] :
     d \in {None, IntV(50)},
     c \in {[model |-> "A", vae |-> "Automatic"], [model |-> "B", vae |-> "V1"]}}

\* the entries of a raw value list of a Prompt Replace axis
ParseEntries == {T_cat, T_dog, T_cat_dog, T_dog_fox}

\* the raw value lists the engine hands to parse_list: the parts of a
\* values text, at least one
ParseInputs == UNION {[1..n -> ParseEntries] : n \in 1..MaxValues}

InitMode ==
  /\ opts = InitOpts
  /\ loaded = InitLoaded
  /\ VALIDATE_REPLACE \in BOOLEAN
  /\ EstIdle
  /\ CallIdle
  /\ RunIdle
  /\ Inited
  /\ OvIdle
  /\ pre_dry_first = TRUE
  /\ \/ \E pv \in CleanInputs :
          md = [op |-> "clean", param |-> pv[1], value |-> pv[2], st |-> None,
                out |-> None]
     \/ \E pv \in ApplyInputs, st \in ApplyStates :
          md = [op |-> "apply", param |-> pv[1], value |-> pv[2], st |-> st,
                out |-> None]
     \/ \E in_list \in ParseInputs :
          md = [op |-> "parse_list", param |-> "Prompt Replace",
                value |-> in_list, st |-> None, out |-> None]

\* the engine validates one axis value: mode.clean(p, v)
ModeClean ==
  /\ md.op = "clean"
  /\ md.out = None
  /\ md' = [md EXCEPT !.out = mode_clean(clean_mode(md.param), md.param, md.value)]
  /\ UNCHANGED <<run_vars, shared_vars, VALIDATE_REPLACE, est, ov, ini, call_vars>>

\* the engine applies one axis value: mode.apply(p, v)
ModeApply ==
  /\ md.op = "apply"
  /\ md.out = None
  /\ md' = [md EXCEPT !.out = mode_apply(clean_mode(md.param), md.st, md.value,
                                         VALIDATE_REPLACE)]
  /\ UNCHANGED <<run_vars, shared_vars, VALIDATE_REPLACE, est, ov, ini, call_vars>>

\* the engine parses the raw value list of an axis: mode.parse_list(in_list)
ModeParseList ==
  /\ md.op = "parse_list"
  /\ md.out = None
  /\ md' = [md EXCEPT !.out = prompt_replace_parse_list(md.value)]
  /\ UNCHANGED <<run_vars, shared_vars, VALIDATE_REPLACE, est, ov, ini, call_vars>>

NextMode == ModeClean \/ ModeApply \/ ModeParseList

SpecMode == InitMode /\ [][NextMode]_vars

---------------------------------------------------------------------------
(* The grid-level minimum sizes over the coordinates of one grid: each   *)
(* coordinate brings one value of a dimension axis                       *)

DimInputs ==
  { <<"width", IntV(512)>>, <<"width", IntV(768)>>, <<"width", StrV(T_768)>>,
    <<"out width", IntV(640)>>, <<"height", IntV(256)>>, <<"out height", IntV(0)>> }

InitDims ==
  /\ opts = InitOpts
  /\ loaded = InitLoaded
  /\ VALIDATE_REPLACE = TRUE
  /\ EstIdle
  /\ ModeIdle
  /\ OvIdle
  /\ Inited
  /\ RunIdle
  /\ pre_dry_first = TRUE
  /\ h_pc = "new"
  /\ h_grid \in {[min_width |-> None, min_height |-> None,
                  initial_p |-> [BaseRequest EXCEPT !.width = IntV(w)]] :
                   w \in {256, 512, 1024}}
  /\ h_call = None
  /\ h_st = None
  /\ h_pre = None
  /\ h_axes = <<>>
  /\ h_count = 0

\* the next coordinate of the grid is flattened: h_axes keeps the values
\* of the whole grid
DimAdd ==
  /\ h_count < MaxSets
  /\ \E pv \in DimInputs :
       LET grid_call == a1111_grid_call_init_hook(
                          [replacements |-> None, params |-> EmptyDict])
           r == flatten_param(h_grid, grid_call, pv[1], pv[2])
       IN /\ h_grid' = r.grid
          /\ h_axes' = Append(h_axes, pv)
  /\ h_count' = h_count + 1
  /\ UNCHANGED <<run_vars, shared_vars, VALIDATE_REPLACE, est, ov, ini, md, h_pc, h_call,
                 h_st, h_pre>>

NextDims == DimAdd

SpecDims == InitDims /\ [][NextDims]_vars

---------------------------------------------------------------------------
(* One run of the script: Script.run, the engine's pass over the         *)
(* coordinates, the save threads                                        *)

RandomSeeds == {1, 2}

\* the draws get_fixed_seed can make for a seed
Draws(seed) == IF seed = None \/ seed = IntV(-1) THEN RandomSeeds ELSE {0}

RunRequests ==
  { [BaseRequest EXCEPT !.seed = IntV(-1)],
    [BaseRequest EXCEPT !.seed = IntV(7), !.subseed = IntV(-1)] }

RunArgs ==
  [grid_file : {T_grid_yml, T_up_grid_yml, <<>>, T_create_in_ui},
   output_file_path : {StrV(<<>>), StrV(T_out), StrV(T_up_out), None},
   dry_run : BOOLEAN, validate_replace : BOOLEAN]

\* the axis values of the coordinates a grid file can hold
RunCoords ==
  { << <<"model", "B">>, <<"use result index", IntV(1)>> >>,
    << <<"vae", "V2">>, <<"codeformer weight", StrV(T_0_9)>> >>,
    << <<"restore faces", "GFPGAN">>, <<"use result index", IntV(5)>> >>,
    << <<"model", "Z">> >> }

RunGrids == UNION {[1..n -> RunCoords] : n \in 1..MaxSets}

\* Script.run, the checks of its arguments: TRUE when one of them raises
validate_run_args(grid_file, output_file_path) ==
  \/ Contains(<<".", ".">>, grid_file)
  \/ grid_file = <<>>
  \/ output_file_path = None
  \/ Contains(<<".", ".">>, output_file_path.str)
  \/ grid_file = T_create_in_ui /\ output_file_path.str = <<>>

\* Script.run, the clean-up of its copy of the request
clean_default_params(p, draw) ==
  [p EXCEPT !.n_iter = IntV(1), !.batch_size = IntV(1),
            !.do_not_save_samples = BoolV(TRUE), !.do_not_save_grid = BoolV(TRUE),
            !.seed = get_fixed_seed(p.seed, draw)]

\* the engine cleans and flattens the axis values of one coordinate
RECURSIVE flatten_params_from(_, _, _, _)
flatten_params_from(axes, i, g, grid_call) ==
  IF i > Len(axes) THEN [err |-> FALSE, grid |-> g, grid_call |-> grid_call]
  ELSE LET c == mode_clean(clean_mode(axes[i][1]), axes[i][1], axes[i][2])
       IN IF c.err THEN [err |-> TRUE, grid |-> g, grid_call |-> grid_call]
          ELSE LET r == flatten_param(g, grid_call, axes[i][1], c.value)
               IN flatten_params_from(axes, i + 1, r.grid, r.grid_call)

\* the engine builds the coordinates of the grid, each with its output path
RECURSIVE build_sets(_, _, _, _, _)
build_sets(coords, k, g, dir, acc) ==
  IF k > Len(coords) THEN [err |-> FALSE, grid |-> g, sets |-> acc]
  ELSE LET call0 == a1111_grid_call_init_hook(
                      [params |-> EmptyDict, replacements |-> None])
           f == flatten_params_from(coords[k], 1, g, call0)
       IN IF f.err THEN [err |-> TRUE, grid |-> g, sets |-> acc]
          ELSE build_sets(coords, k + 1, f.grid, dir,
                 Append(acc, [cell |-> k, params |-> f.grid_call.params,
                              replacements |-> f.grid_call.replacements,
                              filepath |-> [dir |-> dir, name |-> k]]))

\* GridRunner.preprocess: the sum of the step estimates
RECURSIVE total_steps_from(_, _, _)
total_steps_from(p, ss, k) ==
  IF k > Len(ss) THEN 0
  ELSE a1111_grid_runner_count_steps(p, ss[k].params) + total_steps_from(p, ss, k + 1)

InitRun ==
  /\ opts = InitOpts
  /\ loaded = InitLoaded
  /\ VALIDATE_REPLACE = TRUE
  /\ EstIdle
  /\ ModeIdle
  /\ OvIdle
  /\ Inited
  /\ CallIdle
  /\ RunIdle
  /\ pre_dry_first \in BOOLEAN

\* Script.run up to the guard: the request is copied and cleaned, the flag
\* stored, the arguments checked, the guard entered
RunBegin ==
  /\ pc = "idle"
  /\ ini' = call_try_init(ini, "run")
  /\ IF Len(ini'.calls) \in ini'.raised
     THEN /\ pc' = "rejected"
          /\ exc' = TRUE
          /\ UNCHANGED <<run_p, VALIDATE_REPLACE, args, fixer>>
     ELSE \E p \in RunRequests, a \in RunArgs :
            \E d \in Draws(p.seed) :
              /\ run_p' = clean_default_params(p, d)
              /\ VALIDATE_REPLACE' = a.validate_replace
              /\ args' = a
              /\ IF validate_run_args(a.grid_file, a.output_file_path)
                 THEN /\ pc' = "rejected"
                      /\ exc' = TRUE
                      /\ fixer' = fixer
                 ELSE /\ pc' = "gen"
                      /\ exc' = exc
                      /\ fixer' = SettingsFixer_enter(opts)
  /\ UNCHANGED <<opts, loaded, est, ov, md, call_vars, dry, pre_dry_first, skipped, cancelled,
                 grid, sets, idx, cur, temp, progress, threads, disk, obs>>

\* core.run_grid_gen up to the runner: the grid file is read, every axis
\* value cleaned and flattened, the steps counted
EngineBuild ==
  /\ pc = "gen"
  /\ \E coords \in RunGrids :
       LET dir == IF args.output_file_path.str = <<>> THEN args.grid_file
                  ELSE args.output_file_path.str
           b == build_sets(coords, 1,
                           [min_width |-> None, min_height |-> None,
                            initial_p |-> run_p], dir, <<>>)
       IN IF b.err
          THEN /\ pc' = "exit"
               /\ exc' = TRUE
               /\ UNCHANGED <<grid, sets>>
          ELSE /\ pc' = "prerun"
               /\ exc' = exc
               /\ sets' = b.sets
               /\ grid' = [grid |-> b.grid, format |-> "png",
                           total_run |-> Len(b.sets),
                           total_steps |-> total_steps_from(run_p, b.sets, 1)]
  /\ dry' = args.dry_run
  /\ args' = None
  /\ UNCHANGED <<opts, loaded, VALIDATE_REPLACE, est, ov, ini, md, call_vars, pre_dry_first, skipped, cancelled,
                 fixer, run_p, idx, cur, temp, progress, threads, disk, obs>>

\* GridRunner.run begins: the pre-run hook
PreRun ==
  /\ pc = "prerun"
  /\ progress' = a1111_grid_runner_pre_run_hook(grid.total_run, grid.total_steps)
  /\ idx' = 1
  /\ pc' = "cell"
  /\ UNCHANGED <<opts, loaded, VALIDATE_REPLACE, est, ov, ini, md, call_vars, args, dry,
                 pre_dry_first, skipped, cancelled, fixer, run_p, grid, sets, cur, temp, exc,
                 threads, disk, obs>>

\* GridRunner.run, one coordinate: the pre-dry hook
CellPreDry ==
  /\ \/ pc = "cell" /\ pre_dry_first
     \/ pc = "mid" /\ ~pre_dry_first
  /\ temp' = a1111_grid_runner_pre_dry_hook(opts)
  /\ cur' = IF pc = "cell" THEN [p |-> run_p, before |-> opts] ELSE cur
  /\ pc' = IF pc = "cell" THEN "mid" ELSE "ready"
  /\ UNCHANGED <<opts, loaded, VALIDATE_REPLACE, est, ov, ini, md, call_vars, args, dry,
                 pre_dry_first, skipped, cancelled, fixer, run_p, grid, sets, idx, exc, progress,
                 threads, disk, obs>>

\* GridRunner.run, one coordinate: set.apply_to(p, dry) on a copy of the
\* request
CellApply ==
  /\ \/ pc = "cell" /\ ~pre_dry_first
     \/ pc = "mid" /\ pre_dry_first
  /\ LET c0 == IF pc = "cell" THEN [p |-> run_p, before |-> opts] ELSE cur
         r == apply_to(sets[idx],
                       [p |-> c0.p, opts |-> opts, loaded |-> loaded, err |-> FALSE],
                       dry, VALIDATE_REPLACE)
     IN /\ cur' = [c0 EXCEPT !.p = r.p]
        /\ opts' = r.opts
        /\ loaded' = r.loaded
        /\ IF r.err
           THEN pc' = "exit" /\ exc' = TRUE
           ELSE pc' = (IF pc = "cell" THEN "mid" ELSE "ready") /\ exc' = exc
  /\ UNCHANGED <<VALIDATE_REPLACE, est, ov, ini, md, call_vars, args, dry, pre_dry_first, skipped, cancelled,
                 fixer, run_p, grid, sets, idx, temp, progress, threads, disk,
                 obs>>

\* GridRunner.run, one coordinate of a dry run: nothing is rendered and the
\* post-dry hook is not called
CellDry ==
  /\ pc = "ready"
  /\ dry
  /\ obs' = Append(obs, [cell |-> idx, rendered |-> FALSE, before |-> cur.before,
                         snapshot |-> temp, after |-> opts, temp_after |-> temp,
                         failed |-> FALSE, n |-> 0,
                         index |-> cur.p.inf_grid_use_result_index,
                         selected |-> -1, scheduled |-> {}, request |-> None,
                         configured |-> None, active |-> None,
                         meta |-> None])
  /\ cur' = None
  /\ IF idx < Len(sets) THEN idx' = idx + 1 /\ pc' = "cell"
     ELSE idx' = idx /\ pc' = "exit"
  /\ UNCHANGED <<opts, loaded, VALIDATE_REPLACE, est, ov, ini, md, call_vars, args, dry,
                 pre_dry_first, skipped, cancelled, fixer, run_p, grid, sets, temp, exc, progress,
                 threads, disk>>

\* GridRunner.run, one coordinate: the post-dry hook renders n images (-1:
\* the backend raises); a failure ends the run or the coordinate, as the
\* engine decides
CellPostDry ==
  /\ pc = "ready"
  /\ ~dry
  /\ \E n \in (0 - 1)..MaxImages, d1 \in Draws(cur.p.seed), d2 \in Draws(cur.p.subseed) :
       LET r == a1111_grid_runner_post_dry_hook([p |-> cur.p, opts |-> opts], temp,
                                                sets[idx], grid.format, n, d1, d2)
       IN \E abort \in (IF r.raised THEN BOOLEAN ELSE {FALSE}) :
            /\ opts' = r.opts
            /\ temp' = r.temp
            /\ threads' = threads \cup r.started
            /\ disk' = [disk EXCEPT !.dirs = @ \cup r.dirs]
            /\ obs' = Append(obs,
                 [cell |-> idx, rendered |-> TRUE, before |-> cur.before,
                  snapshot |-> temp, after |-> r.opts, temp_after |-> r.temp,
                  failed |-> r.raised, n |-> n,
                  index |-> r.p.inf_grid_use_result_index,
                  selected |-> r.selected, scheduled |-> r.started,
                  request |-> [n_iter |-> r.p.n_iter, batch_size |-> r.p.batch_size,
                               seed |-> r.p.seed, subseed |-> r.p.subseed],
                  configured |-> [model |-> opts.sd_model_checkpoint,
                                  vae |-> opts.sd_vae],
                  active |-> [model |-> loaded.model, vae |-> loaded.vae],
                  meta |-> [info |-> create_infotext(r.p, opts),
                            prompt |-> r.p.prompt, seed |-> r.p.seed,
                            ext |-> grid.format, path |-> sets[idx].filepath]])
            /\ progress' = process_images_total(progress, cur.p)
            /\ cur' = None
            /\ IF abort THEN idx' = idx /\ pc' = "exit" /\ exc' = TRUE
               ELSE IF idx < Len(sets) THEN idx' = idx + 1 /\ pc' = "cell" /\ exc' = exc
               ELSE idx' = idx /\ pc' = "exit" /\ exc' = exc
  /\ UNCHANGED <<loaded, VALIDATE_REPLACE, est, ov, ini, md, call_vars, args, dry,
                 pre_dry_first, skipped, cancelled, fixer, run_p, grid, sets>>

\* GridRunner.run, between two coordinates: the run was cancelled and the
\* engine returns
CellCancel ==
  /\ pc = "cell"
  /\ cancelled' = TRUE
  /\ pc' = "exit"
  /\ UNCHANGED <<opts, loaded, VALIDATE_REPLACE, est, ov, ini, md, call_vars, args, dry,
                 pre_dry_first, skipped, fixer, run_p, grid, sets, idx, cur, temp, exc,
                 progress, threads, disk, obs>>

\* GridRunner.run, one coordinate the engine skips: none of the hooks is
\* called for it
CellSkip ==
  /\ pc = "cell"
  /\ skipped' = skipped \cup {idx}
  /\ IF idx < Len(sets) THEN idx' = idx + 1 /\ pc' = "cell"
     ELSE idx' = idx /\ pc' = "exit"
  /\ UNCHANGED <<opts, loaded, VALIDATE_REPLACE, est, ov, ini, md, call_vars, args,
                 dry, pre_dry_first, cancelled, fixer, run_p, grid, sets, cur,
                 temp, exc, progress, threads, disk, obs>>

\* Script.run leaves the `with` block, by return or by exception
RunEnd ==
  /\ pc = "exit"
  /\ LET r == SettingsFixer_exit(fixer, [opts |-> opts, loaded |-> loaded])
     IN opts' = r.opts /\ loaded' = r.loaded
  /\ pc' = IF exc THEN "failed" ELSE "done"
  /\ UNCHANGED <<VALIDATE_REPLACE, est, ov, ini, md, call_vars, args, dry, pre_dry_first, skipped, cancelled,
                 fixer, run_p, grid, sets, idx, cur, temp, exc, progress,
                 threads, disk, obs>>

\* Processed(p, images_list)
Processed(p, images_list) == [p |-> p, images |-> images_list]

\* what core.run_grid_gen returns: nothing for a dry run, else the renders
run_grid_gen_result ==
  IF dry THEN None
  ELSE Processed(run_p, [i \in 1..Len(obs) |-> obs[i].n])

\* what Script.run returns
Script_run_result ==
  IF run_grid_gen_result = None THEN Processed(run_p, <<>>)
  ELSE run_grid_gen_result

\* a save thread runs save_offthread
SaveWorker ==
  /\ \E job \in threads :
       LET f == <<job.path, job.name>>
       IN /\ threads' = threads \ {job}
          /\ disk' = [disk EXCEPT !.files =
                        [x \in DOMAIN @ \cup {f} |->
                           IF x = f THEN save_offthread(job, opts) ELSE @[x]]]
  /\ UNCHANGED <<opts, loaded, VALIDATE_REPLACE, est, ov, ini, md, call_vars, pc, args, dry,
                 pre_dry_first, skipped, cancelled, fixer, run_p, grid, sets, idx, cur, temp, exc,
                 progress, obs>>

Next ==
  \/ RunBegin
  \/ EngineBuild
  \/ PreRun
  \/ CellPreDry
  \/ CellApply
  \/ CellDry
  \/ CellPostDry
  \/ CellCancel
  \/ CellSkip
  \/ RunEnd
  \/ SaveWorker

Spec == InitRun /\ [][Next]_vars

\* the save threads are scheduled fairly: a started thread runs to its end
SpecSave == Spec /\ WF_vars(SaveWorker)

---------------------------------------------------------------------------
(* The override map of the request over the copies of one run.  A request *)
(* holds a reference to its override map; ov.heap holds the maps.         *)

\* copy(p): a shallow copy has the attribute values of p, references included
copy(p) == p

\* mode.apply(p, v) on a request whose override map lives in the heap: the
\* new heap
apply_on_heap(heap, p, param, v) ==
  LET st == [p |-> [p EXCEPT !.override_settings = heap[p.override_settings]],
             opts |-> InitOpts, loaded |-> InitLoaded, err |-> FALSE]
      r == mode_apply(clean_mode(param), st, v, TRUE)
  IN [heap EXCEPT ![p.override_settings] = r.p.override_settings]

RECURSIVE apply_all_on_heap(_, _, _, _)
apply_all_on_heap(heap, p, values, i) ==
  IF i > Len(values) THEN heap
  ELSE apply_all_on_heap(apply_on_heap(heap, p, values[i][1], values[i][2]),
                         p, values, i + 1)

\* the override maps the caller's request can come with
OvCallerMaps ==
  { EmptyDict, <<(<<"CLIP_stop_at_last_layers", IntV(1)>>)>> }

\* the axis values of the coordinates of a grid
OvCoords ==
  { << <<"steps", IntV(30)>> >>,
    << <<"ClipSkip", IntV(2)>> >>,
    << <<"ETA Noise Seed Delta", IntV(31337)>> >>,
    << <<"steps", IntV(30)>>, <<"ClipSkip", IntV(1)>> >>,
    << <<"ClipSkip", IntV(2)>>, <<"ETA Noise Seed Delta", IntV(31337)>> >> }

InitOv ==
  /\ opts = InitOpts
  /\ loaded = InitLoaded
  /\ VALIDATE_REPLACE = TRUE
  /\ EstIdle
  /\ ModeIdle
  /\ CallIdle
  /\ RunIdle
  /\ Inited
  /\ pre_dry_first = TRUE
  /\ \E d \in OvCallerMaps :
       ov = [pc |-> "caller", heap |-> <<d>>, caller_map |-> d,
             original |-> [BaseRequest EXCEPT !.override_settings = 1],
             p |-> None, seen |-> <<>>]

\* Script.run: p = copy(p) and the clean-up of the copy
OvRunCopy ==
  /\ ov.pc = "caller"
  /\ ov' = [ov EXCEPT !.pc = "run",
                      !.p = clean_default_params(copy(ov.original), 0)]
  /\ UNCHANGED <<run_vars, shared_vars, VALIDATE_REPLACE, est, md, ini, call_vars>>

\* one coordinate: the engine copies the request of the run, applies the
\* axis values to the copy and renders it
OvCoord ==
  /\ ov.pc = "run"
  /\ Len(ov.seen) < MaxSets
  /\ \E values \in OvCoords :
       LET p == copy(ov.p)
           heap == apply_all_on_heap(ov.heap, p, values, 1)
       IN ov' = [ov EXCEPT !.heap = heap,
                           !.seen = Append(@, [values |-> values,
                                               override_settings |->
                                                 heap[p.override_settings]])]
  /\ UNCHANGED <<run_vars, shared_vars, VALIDATE_REPLACE, est, md, ini, call_vars>>

\* the run returns to the caller
OvReturn ==
  /\ ov.pc = "run"
  /\ ov.seen # <<>>
  /\ ov' = [ov EXCEPT !.pc = "returned"]
  /\ UNCHANGED <<run_vars, shared_vars, VALIDATE_REPLACE, est, md, ini, call_vars>>

NextOv == OvRunCopy \/ OvCoord \/ OvReturn

SpecOverride == InitOv /\ [][NextOv]_vars

---------------------------------------------------------------------------
(* Claims about the step estimate *)

HasKey(d, k) == \E i \in 1..Len(d) : d[i][1] = k

ValueAt(d, k) == d[CHOOSE i \in 1..Len(d) : d[i][1] = k][2]

\* the estimate as stated: base, plus the high-res steps when the
\* high-res pass is on
StatedEstimate(p, params) ==
  LET base == IF HasKey(params, "steps") THEN PyInt(ValueAt(params, "steps"))
              ELSE p.steps.int
      hr_on == IF HasKey(params, "enable highres fix")
               THEN ValueAt(params, "enable highres fix") = BoolV(TRUE)
               ELSE p.enable_hr = BoolV(TRUE)
      hr == IF HasKey(params, "highres steps")
            THEN PyInt(ValueAt(params, "highres steps"))
            ELSE IF p.hr_second_pass_steps.int # 0 THEN p.hr_second_pass_steps.int
            ELSE base
  IN IF hr_on THEN base + hr ELSE base

\* C7: the step estimate of a coordinate is its own steps (else the
\* request's), plus, when the high-res pass is enabled (explicitly, else by
\* the request), the explicit high-res steps, else the request's non-zero
\* second-pass steps, else the base; steps 20 with high-res steps 10 gives
\* 30 when enabled and 20 when disabled, and an explicit "disabled"
\* overrides an enabled request.
C7_StepEstimate ==
  est.out # None =>
    /\ est.out = IntV(StatedEstimate(est.p, est.params))
    /\ (/\ DictGet(est.params, "steps") = IntV(20)
        /\ DictGet(est.params, "highres steps") = IntV(10)
        /\ DictGet(est.params, "enable highres fix") = BoolV(TRUE))
       => est.out = IntV(30)
    /\ (/\ DictGet(est.params, "steps") = IntV(20)
        /\ DictGet(est.params, "enable highres fix") = BoolV(FALSE))
       => est.out = IntV(20)
    /\ (/\ DictGet(est.params, "steps") = None
        /\ DictGet(est.params, "enable highres fix") = BoolV(FALSE))
       => est.out = est.p.steps

\* an explicit "disabled" met an enabled request, and the estimate is the base
C7_Witness ==
  /\ est.out = IntV(20)
  /\ est.p.enable_hr = BoolV(TRUE)
  /\ est.p.hr_second_pass_steps = IntV(10)
  /\ DictGet(est.params, "steps") = IntV(20)
  /\ DictGet(est.params, "highres steps") = IntV(10)
  /\ DictGet(est.params, "enable highres fix") = BoolV(FALSE)

---------------------------------------------------------------------------
(* Claims about one grid's calls *)

\* position of the first "=" of v, 0 if it has none
FirstEq(v) ==
  IF \E i \in 1..Len(v) : v[i] = "="
  THEN CHOOSE i \in 1..Len(v) : v[i] = "=" /\ \A j \in 1..(i - 1) : v[j] # "="
  ELSE 0

MatchOf(v) == Strip(SubSeq(v, 1, FirstEq(v) - 1))

ReplacementOf(v) == Strip(SubSeq(v, FirstEq(v) + 1, Len(v)))

\* v is one match=replace instruction
SingleInstruction(v) == FirstEq(v) > 0 /\ ~Contains(<<"&", "&">>, v)

\* the substitutions vs applied to text one after the other
RECURSIVE ReplayAll(_, _)
ReplayAll(text, vs) ==
  IF vs = <<>> THEN text
  ELSE ReplayAll(StrReplace(text, MatchOf(Head(vs)), ReplacementOf(Head(vs))), Tail(vs))

\* the values of the axis values of the call whose mode is in modes
AxisValues(modes) ==
  LET sel == SelectSeq(h_axes, LAMBDA pv : clean_mode(pv[1]) \in modes)
  IN [i \in 1..Len(sel) |-> sel[i][2]]

\* the text the axes leave in a field: the last value listed, else the request's
ChosenText(mode, field) ==
  LET vs == AxisValues({mode})
  IN IF vs = <<>> THEN h_grid.initial_p[field] ELSE vs[Len(vs)]

\* C5: the apply phase replays the recorded substitutions in the order
\* recorded, each replacing every occurrence of its match text in the
\* prompt and in the negative prompt, each working on the result of the
\* one before; "cat=dog" then "dog=fox" turn "a cat sits" into "a fox sits".
C5_SubstitutionReplay ==
  h_pc = "applied" =>
    /\ h_st.err => VALIDATE_REPLACE
    /\ (/\ ~h_st.err
        /\ \A i \in 1..Len(h_call.replacements) :
             SingleInstruction(h_call.replacements[i]))
       => /\ h_st.p.prompt = ReplayAll(h_pre.prompt, h_call.replacements)
          /\ h_st.p.negative_prompt =
               ReplayAll(h_pre.negative_prompt, h_call.replacements)
    /\ (/\ ~h_st.err
        /\ h_pre.prompt = T_a_cat_sits
        /\ h_call.replacements = <<T_cat_dog, T_dog_fox>>)
       => h_st.p.prompt = T_a_fox_sits

\* "cat=dog" then "dog=fox" were replayed on "a cat sits"
C5_Witness ==
  /\ h_pc = "applied"
  /\ ~h_st.err
  /\ h_pre.prompt = T_a_cat_sits
  /\ h_call.replacements = <<T_cat_dog, T_dog_fox>>
  /\ h_st.p.prompt = T_a_fox_sits
  /\ h_st.p.negative_prompt = <<"f", "o", "x">>

\* C6: param-add of a text substitution only appends it to the call's
\* deferred list and touches no field of the request; the substitutions
\* run after every other axis of the coordinate has been applied, in
\* whatever order the axes are listed, so the final prompt is the
\* substitutions applied to the finally chosen prompt text.
C6_DeferredOrdering ==
  /\ h_pc \in {"add", "applied"} =>
       /\ h_call.replacements = AxisValues({"promptreplace"})
       /\ \A i \in 1..Len(h_call.params) :
            clean_mode(h_call.params[i][1]) # "promptreplace"
  /\ h_pc = "add" => h_st.p = h_grid.initial_p
  /\ h_pc = "applied" =>
       /\ h_pre.prompt = ChosenText("prompt", "prompt")
       /\ h_pre.negative_prompt = ChosenText("negativeprompt", "negative_prompt")
       /\ (/\ ~h_st.err
           /\ \A i \in 1..Len(h_call.replacements) :
                SingleInstruction(h_call.replacements[i]))
          => /\ h_st.p.prompt =
                  ReplayAll(ChosenText("prompt", "prompt"),
                            AxisValues({"promptreplace"}))
             /\ h_st.p.negative_prompt =
                  ReplayAll(ChosenText("negativeprompt", "negative_prompt"),
                            AxisValues({"promptreplace"}))

\* the substitution was listed before the Prompt axis and still ran after it
C6_Witness ==
  /\ h_pc = "applied"
  /\ ~h_st.err
  /\ h_axes = <<(<<"prompt replace", T_dog_fox>>), (<<"prompt", T_a_dog_sits>>)>>
  /\ h_st.p.prompt = T_a_fox_sits

\* C10: once the grid's min-width (min-height) is set, no later param-add
\* call increases it, whatever width, out-width, height and out-height
\* values the modes accept, 0 included.
C10_MonotoneMin ==
  [][/\ h_grid.min_width # None =>
          /\ h_grid'.min_width # None
          /\ h_grid'.min_width.int <= h_grid.min_width.int
     /\ h_grid.min_height # None =>
          /\ h_grid'.min_height # None
          /\ h_grid'.min_height.int <= h_grid.min_height.int]_vars

---------------------------------------------------------------------------
(* Claims about one run *)

\* the options a snapshot of the pre-dry hook stands for
SnapshotOpts(t) ==
  [sd_model_checkpoint |-> t.old_model, sd_vae |-> t.old_vae,
   code_former_weight |-> t.old_codeformer_weight,
   face_restoration_model |-> t.old_face_restorer]

\* C1: every run that entered the guard ends, on every exit path, with the
\* four shared values as they were when the guard was acquired, and with
\* the model and the VAE reloaded after the values were written back.
C1_WholeRunGuard ==
  pc \in {"done", "failed"} =>
    /\ opts = InitOpts
    /\ loaded.model = InitOpts.sd_model_checkpoint
    /\ loaded.vae = InitOpts.sd_vae
    /\ loaded.model_reloads >= 1
    /\ loaded.vae_reloads >= 1

\* the run set the model to B, failed on its final coordinate with B still
\* in the options, and ended with A
C1_Witness ==
  /\ pc = "failed"
  /\ Len(sets) = MaxSets
  /\ Len(obs) = Len(sets)
  /\ obs[Len(obs)].failed
  /\ obs[Len(obs)].after.sd_model_checkpoint = "B"
  /\ opts.sd_model_checkpoint = "A"
  /\ loaded.model = "A"

\* C2: at the end of every coordinate that was not skipped, failed or not,
\* the four shared values equal what they were before the coordinate's
\* parameters were applied.
C2_Isolation ==
  \A i \in 1..Len(obs) : obs[i].after = obs[i].before

\* C3: when the render of a coordinate fails (the backend raises or returns
\* no image) the snapshot of the pre-dry hook is still written back to the
\* shared values and the snapshot slot released before the coordinate ends.
C3_RestoreOnFailure ==
  \A i \in 1..Len(obs) :
    (obs[i].rendered /\ obs[i].failed) =>
      /\ obs[i].after = SnapshotOpts(obs[i].snapshot)
      /\ obs[i].temp_after = None

\* the render-time metadata of the coordinate a saved record belongs to
SavedAsRendered(dir, name, rec) ==
  \E i \in 1..Len(obs) :
    /\ obs[i].rendered
    /\ ~obs[i].failed
    /\ obs[i].meta.path = [dir |-> dir, name |-> name]
    /\ rec.info = obs[i].meta.info
    /\ rec.prompt = obs[i].meta.prompt
    /\ rec.seed = obs[i].meta.seed
    /\ rec.ext = obs[i].meta.ext

\* C4: whenever the save thread of a coordinate runs, the info text, prompt,
\* seed, format and path it writes are those of that coordinate's render,
\* never values of a later coordinate.
C4_SaveMetadata ==
  /\ \A f \in DOMAIN disk.files : SavedAsRendered(f[1], f[2], disk.files[f])
  /\ \A job \in threads : SavedAsRendered(job.path, job.name, job)

\* the image of coordinate 1, rendered with model B, is on disk while
\* coordinate 2 has applied its own values and not yet rendered
C4_Witness ==
  /\ pc = "ready"
  /\ idx = 2
  /\ pre_dry_first
  /\ opts.sd_model_checkpoint = "A"
  /\ opts.sd_vae = "V2"
  /\ \E f \in DOMAIN disk.files :
       /\ f[2] = 1
       /\ disk.files[f].info.model = "B"
       /\ disk.files[f].info.vae = "Automatic"

\* the index the request configures, 0 when it configures none
ConfiguredIndex(o) == IF o.index = Absent THEN 0 ELSE o.index.int

\* C8: for every configured result index i >= 0 and every render of n >= 1
\* images, image min(i, n-1) is selected and the index raises nothing.
C8_ResultIndexClamp ==
  \A i \in 1..Len(obs) :
    (obs[i].rendered /\ obs[i].n >= 1 /\ ConfiguredIndex(obs[i]) >= 0) =>
      /\ ~obs[i].failed
      /\ obs[i].selected = PyMin(ConfiguredIndex(obs[i]), obs[i].n - 1)

\* index 5 on two images selects image 1, and no index selects image 0
C8_Witness ==
  /\ \E i \in 1..Len(obs) :
       obs[i].n = 2 /\ obs[i].index = IntV(5) /\ obs[i].selected = 1
  /\ \E i \in 1..Len(obs) :
       obs[i].n = 2 /\ obs[i].index = Absent /\ obs[i].selected = 0

\* C9: a coordinate whose render returns no image fails; no image is
\* selected and no save is started for it.
C9_ZeroImages ==
  \A i \in 1..Len(obs) :
    (obs[i].rendered /\ obs[i].n = 0) =>
      /\ obs[i].failed
      /\ obs[i].selected = 0 - 1
      /\ obs[i].scheduled = {}
      /\ \A job \in threads : job.p # obs[i].cell
      /\ \A f \in DOMAIN disk.files : f[2] # obs[i].cell

\* a render without images failed its coordinate and the run went on
C9_Witness ==
  /\ Len(obs) >= 2
  /\ obs[1].rendered
  /\ obs[1].n = 0
  /\ obs[1].failed
  /\ ~obs[2].failed

---------------------------------------------------------------------------
(* Claims about the grid-level minimum sizes *)

\* the grid's Width axis took the values 512 then 768, and no other
\* dimension value was seen
WidthAxis512Then768 ==
  h_axes = << <<"width", IntV(512)>>, <<"width", IntV(768)>> >>

\* C11 (as stated): a grid whose Width axis takes the values 512 then 768
\* ends with min-width 512, whatever the base width of the request.
C11_MinWidthAnyBase ==
  WidthAxis512Then768 => h_grid.min_width = IntV(512)

\* C11 (amended): a grid whose Width axis takes the values 512 then 768
\* ends with min-width = the smaller of 512 and the request's base width,
\* which seeds the minimum; 512 for every base width of 512 or more.
C11_MinWidthSeeded ==
  WidthAxis512Then768 =>
    h_grid.min_width = IntV(PyMin(h_grid.initial_p.width.int, 512))

\* base width 1024, Width 512 then 768: the minimum is 512
C11_Witness ==
  /\ WidthAxis512Then768
  /\ h_grid.initial_p.width = IntV(1024)
  /\ h_grid.min_width = IntV(512)

---------------------------------------------------------------------------
(* Claims about one operation of a mode *)

\* the catalog behind a mode with a clean operation
CatalogOf(param) == IF clean_mode(param) = "vae" THEN Vaes ELSE Checkpoints

\* no entry of the mode's catalog has the value's name, and the value is
\* none of VAE's none / auto / automatic
OutOfCatalog(param, v) ==
  /\ clean_mode(param) \in {"model", "highrescheckpoint", "vae"}
  /\ \A e \in CatalogOf(param) : CleanName(e) # CleanName(v)
  /\ clean_mode(param) = "vae" => CleanName(v) \notin {"none", "auto", "automatic"}

\* C12: clean of Model, HighRes Checkpoint or VAE on a value that is not in
\* the catalog (nor, for VAE, none / auto / automatic) fails with an error
\* naming the parameter, the value and the catalog entries, and returns no
\* value.
C12_CatalogValidation ==
  (md.op = "clean" /\ md.out # None /\ OutOfCatalog(md.param, md.value)) =>
    /\ md.out.err
    /\ md.out.value = None
    /\ md.out.error = [p |-> md.param, v |-> md.value, valid |-> CatalogOf(md.param)]

\* a checkpoint name was refused as HighRes Checkpoint, a VAE name as Model
C12_Witness ==
  /\ md.op = "clean"
  /\ md.out # None
  /\ md.out.err
  /\ \/ md.param = "HighRes Checkpoint" /\ md.value = "Z"
     \/ md.param = "Model" /\ md.value = "V1"

\* the modes the specification lists as shared-state mutations
SharedStateModes == {"model", "vae", "clipskip", "etanoiseseeddelta"}

\* reloads of the backend so far
Reloads(l) == l.model_reloads + l.vae_reloads

\* C13: every apply of Model, VAE, ClipSkip or ETA Noise Seed Delta issues
\* a backend reload as part of the apply.
C13_ApplyReloads ==
  (md.op = "apply" /\ md.out # None /\ clean_mode(md.param) \in SharedStateModes) =>
    Reloads(md.out.loaded) > Reloads(md.st.loaded)

\* the fields of the request an apply changed
ChangedFields(before, after) == {f \in DOMAIN after : after[f] # before[f]}

\* C14: every apply that is neither a shared-state mutation nor a text
\* substitution changes one field of the request, no other field of it and
\* nothing of the shared backend configuration; Enable HighRes Fix, Restore
\* Faces and CodeFormer Weight included.
C14_DirectApplyFrame ==
  (/\ md.op = "apply"
   /\ md.out # None
   /\ clean_mode(md.param) \notin SharedStateModes \cup {"promptreplace"}) =>
    /\ md.out.opts = md.st.opts
    /\ md.out.loaded = md.st.loaded
    /\ Cardinality(ChangedFields(md.st.p, md.out.p)) <= 1

---------------------------------------------------------------------------
(* Claims about a cancelled run *)

\* C15: a cancelled run stops between coordinates only; the coordinate it
\* started last has reached its restore (snapshot written back, slot
\* released), and the guard is released before the run returns: the four
\* values restored, model and VAE reloaded.
C15_Cancellation ==
  cancelled =>
    /\ cur = None
    /\ \A i \in 1..Len(obs) :
         (i = Len(obs) /\ obs[i].rendered) =>
           /\ obs[i].after = SnapshotOpts(obs[i].snapshot)
           /\ obs[i].temp_after = None
    /\ pc \in {"done", "failed"} =>
         /\ opts = InitOpts
         /\ loaded.model = InitOpts.sd_model_checkpoint
         /\ loaded.vae = InitOpts.sd_vae
         /\ loaded.model_reloads >= 1
         /\ loaded.vae_reloads >= 1

---------------------------------------------------------------------------
(* Claims about initialization *)

\* every name try_init registers, whatever the companions
AllModes == CoreModes \o DynamicThresholdModes \o ControlNetModes

InRegistry(names) ==
  \A i \in 1..Len(names) : \E j \in 1..Len(ini.registry) : ini.registry[j] = names[i]

AttemptsOf(name) == Cardinality({i \in 1..Len(ini.attempts) : ini.attempts[i] = name})

\* C16: the only failure of the companion-dependent part of initialization
\* that is swallowed is the absence of the companion; a companion that is
\* present and whose registration fails is not passed over in silence.
C16_OnlyAbsenceSwallowed ==
  /\ ini.swallowed = 0
  /\ (ini.has_inited /\ ini.raised = {} /\ ini.env.controlnet = "absent"
        /\ ~ini.env.dynthres)
       => /\ InRegistry(CoreModes)
          /\ \A i \in 1..Len(DynamicThresholdModes \o ControlNetModes) :
               AttemptsOf((DynamicThresholdModes \o ControlNetModes)[i]) = 0

\* C17: initialization is idempotent.  However often and in whatever order
\* ui() and run() call try_init, the hooks are installed once, every mode is
\* registered at most once, no call after the first raises for a name that is
\* already registered, and the core modes are in the registry once the first
\* call has returned.
C17_IdempotentInit ==
  /\ ini.hooks <= 1
  /\ ini.has_inited => ini.hooks = 1
  /\ \A i \in 1..Len(AllModes) : AttemptsOf(AllModes[i]) <= 1
  /\ ini.raised \subseteq {1}
  /\ (ini.has_inited /\ ini.raised = {}) => InRegistry(CoreModes)

C17_Witness ==
  /\ Len(ini.calls) = MaxInitCalls
  /\ ini.calls[1] = "ui" /\ ini.calls[2] = "run" /\ ini.calls[3] = "ui"
  /\ ini.raised = {}
  /\ ini.hooks = 1
  /\ InRegistry(CoreModes)
  /\ ini.env.dynthres /\ InRegistry(DynamicThresholdModes)
  /\ \A i \in 1..Len(AllModes) : AttemptsOf(AllModes[i]) = 1

---------------------------------------------------------------------------
(* Claims about the saved artifacts *)

\* the coordinates whose render succeeded so far
Succeeded == {i \in 1..Len(obs) : obs[i].rendered /\ ~obs[i].failed}

FileOf(job) == <<job.path, job.name>>

PathOf(cell) == <<sets[cell].filepath.dir, sets[cell].filepath.name>>

\* the save of coordinate `cell` has been scheduled / has written its file
SaveScheduled(cell) ==
  \E i \in 1..Len(obs) : obs[i].cell = cell /\ obs[i].scheduled # {}

SaveCompleted(cell) ==
  /\ sets # <<>>
  /\ cell <= Len(sets)
  /\ PathOf(cell) \in DOMAIN disk.files

\* one save per successful render, of the finished image, to the path the
\* engine gave the coordinate, its directory made; restore done in the same
\* hook call; a scheduled save is pending or written, and nothing else is
C18_OneSavePerRender ==
  /\ \A i \in 1..Len(obs) :
       IF i \in Succeeded
       THEN /\ Cardinality(obs[i].scheduled) = 1
            /\ \A job \in obs[i].scheduled :
                 /\ FileOf(job) = PathOf(obs[i].cell)
                 /\ job.img.cell = obs[i].cell
                 /\ job.img.index = obs[i].selected
                 /\ job.path \in disk.dirs
                 /\ job \in threads \/ FileOf(job) \in DOMAIN disk.files
            /\ obs[i].temp_after = None
            /\ obs[i].after = SnapshotOpts(obs[i].snapshot)
       ELSE obs[i].scheduled = {}
  /\ {FileOf(job) : job \in threads} \cup DOMAIN disk.files
       = {PathOf(obs[i].cell) : i \in Succeeded}
  /\ {FileOf(job) : job \in threads} \cap DOMAIN disk.files = {}
  /\ Cardinality(threads) + Cardinality(DOMAIN disk.files) = Cardinality(Succeeded)

\* C18: every coordinate whose render succeeds gets exactly one save,
\* scheduled in the post-dry hook for the finished image at the path the
\* engine supplied, after the directory is made; the hook restores and
\* returns with the save still pending; with the save threads scheduled
\* fairly every scheduled save writes its file.
C18_OneArtifact ==
  /\ []C18_OneSavePerRender
  /\ \A cell \in 1..(MaxSets + 1) : SaveScheduled(cell) ~> SaveCompleted(cell)

\* the run has returned, restored, while a save is still pending
C18_Witness ==
  /\ pc = "done"
  /\ threads # {}
  /\ Succeeded # {}
  /\ \E i \in Succeeded : obs[i].scheduled \subseteq threads /\ obs[i].temp_after = None

---------------------------------------------------------------------------
(* Claims about the progress total *)

\* the sum of the step estimates of the coordinates of the run
SumOfEstimates == total_steps_from(run_p, sets, 1)

\* the pre-run hook has run
PreRunDone == progress.refined

\* C19: the progress total is set once, by the pre-run hook, before any
\* coordinate is rendered, to the sum of the step estimates of the
\* coordinates; the hook marks the job count as refined, and no later step
\* of the run, the backend's render included, changes the total.
C19_ProgressTotal ==
  /\ [](PreRunDone => /\ progress.total = SumOfEstimates
                      /\ progress.job_count = Len(sets))
  /\ [](~PreRunDone => obs = <<>> /\ progress = [job_count |-> 0, total |-> 0,
                                                 refined |-> FALSE])
  /\ [][progress' # progress => pc = "prerun" /\ obs = <<>> /\ ~PreRunDone]_vars

\* two coordinates have been rendered after the total was set
C19_Witness ==
  /\ PreRunDone
  /\ progress.total = 40
  /\ Len(obs) = 2
  /\ \A i \in 1..2 : obs[i].rendered

---------------------------------------------------------------------------
(* Claims about the invocation of the backend *)

\* a seed get_fixed_seed has nothing to do for
IsFixedSeed(seed) == seed # None /\ seed # IntV(0 - 1)

\* the coordinates the hooks were called for
CellsRun == {obs[i].cell : i \in 1..Len(obs)}

\* C20: a dry run never invokes the backend, schedules no save and returns
\* an empty result; a run that is not dry invokes the backend once for every
\* coordinate that is not skipped, with batch size 1 and iteration count 1,
\* and with seed and sub-seed fixed before the invocation.
C20_RenderInvocation ==
  /\ dry => /\ \A i \in 1..Len(obs) : ~obs[i].rendered /\ obs[i].scheduled = {}
            /\ threads = {}
            /\ DOMAIN disk.files = {}
            /\ pc = "done" => Script_run_result = Processed(run_p, <<>>)
  /\ ~dry => \A i \in 1..Len(obs) :
               /\ obs[i].rendered
               /\ obs[i].request.n_iter = IntV(1)
               /\ obs[i].request.batch_size = IntV(1)
               /\ IsFixedSeed(obs[i].request.seed)
               /\ IsFixedSeed(obs[i].request.subseed)
  /\ \A i, j \in 1..Len(obs) : i < j => obs[i].cell < obs[j].cell
  /\ CellsRun \cap skipped = {}
  /\ (pc \in {"exit", "done"} /\ ~exc /\ ~cancelled)
       => CellsRun \cup skipped = 1..Len(sets)

\* a finished run that skipped its first coordinate and rendered the second
\* with a sub-seed the hook had to draw
C20_Witness ==
  /\ pc = "done"
  /\ ~dry
  /\ skipped = {1}
  /\ Len(obs) = 1
  /\ obs[1].cell = 2
  /\ run_p.subseed = IntV(0 - 1)
  /\ obs[1].request.subseed = IntV(1)
  /\ obs[1].request.batch_size = IntV(1)

---------------------------------------------------------------------------
(* Claims about Prompt Replace values *)

\* the instructions of a Prompt Replace value: its parts between "&&"
InstructionsOf(v) ==
  LET parts == StrSplit(v, <<"&", "&">>)
  IN [i \in 1..Len(parts) |-> Strip(parts[i])]

\* the instructions applied one by one, each as a value of its own
RECURSIVE ApplyOneByOne(_, _, _, _)
ApplyOneByOne(st, instructions, i, validate) ==
  IF i > Len(instructions) \/ st.err THEN st
  ELSE ApplyOneByOne(apply_prompt_replace(st, instructions[i], validate),
                     instructions, i + 1, validate)

PromptReplaceApplied ==
  /\ md # None
  /\ md.op = "apply"
  /\ clean_mode(md.param) = "promptreplace"
  /\ md.out # None

\* C21: a Prompt Replace value of several instructions joined by "&&" gives
\* the prompt and the negative prompt that applying the instructions one by
\* one, in order, as separate values gives, and the text after "&&" is never
\* part of what is put into the prompts.
C21_MultiInstruction ==
  PromptReplaceApplied =>
    /\ md.out = ApplyOneByOne(md.st, InstructionsOf(md.value), 1, VALIDATE_REPLACE)
    /\ ~md.out.err => /\ ~Contains(<<"&", "&">>, md.out.p.prompt)
                      /\ ~Contains(<<"&", "&">>, md.out.p.negative_prompt)

---------------------------------------------------------------------------
(* Claims about the weights the backend has loaded *)

\* C22: when a coordinate's render starts, the model and the VAE the backend
\* has loaded are the ones the shared options name at that moment; after a
\* coordinate that applied model B was restored to A, a coordinate that sets
\* no model renders with A loaded.
C22_ActiveIsConfigured ==
  \A i \in 1..Len(obs) :
    obs[i].rendered => obs[i].active = obs[i].configured

---------------------------------------------------------------------------
(* Claims about the override map *)

\* the override keys the axis values of a coordinate write
OverrideKeysOf(values) ==
  {k \in {"CLIP_stop_at_last_layers", "eta_noise_seed_delta"} :
     \E i \in 1..Len(values) :
       \/ k = "CLIP_stop_at_last_layers" /\ clean_mode(values[i][1]) = "clipskip"
       \/ k = "eta_noise_seed_delta" /\ clean_mode(values[i][1]) = "etanoiseseeddelta"}

\* C23: an override a coordinate writes into the request's override map is
\* not in the request of a later coordinate that does not set it, and not in
\* the caller's request after the run.
C23_OverrideIsolation ==
  /\ \A i \in 1..Len(ov.seen) :
       \A k \in {"CLIP_stop_at_last_layers", "eta_noise_seed_delta"} :
         k \notin OverrideKeysOf(ov.seen[i].values)
           => DictGet(ov.seen[i].override_settings, k) = DictGet(ov.caller_map, k)
  /\ ov.pc = "returned" => ov.heap[ov.original.override_settings] = ov.caller_map

---------------------------------------------------------------------------
(* Claims about the arguments of a run *)

\* the arguments the run is said to refuse: an empty grid file name or one
\* with "..", an output path with "..", "Create in UI" with an empty or
\* missing output path
StatedRejection(a) ==
  \/ a.grid_file = <<>>
  \/ Contains(<<".", ".">>, a.grid_file)
  \/ a.output_file_path # None /\ Contains(<<".", ".">>, a.output_file_path.str)
  \/ /\ a.grid_file = T_create_in_ui
     /\ a.output_file_path = None \/ a.output_file_path = StrV(<<>>)

\* C24: run() fails before it acquires the guard and before the engine is
\* invoked, the shared options untouched, exactly when the grid file name is
\* empty or holds "..", the output path holds "..", or the grid is "Create
\* in UI" with an empty or missing output path; every other run enters the
\* guard and invokes the engine.
C24_InputRejection ==
  /\ (pc \in {"rejected", "gen"} /\ args # None)
       => (pc = "rejected" <=> StatedRejection(args))
  /\ pc = "rejected" => /\ fixer = None
                        /\ opts = InitOpts /\ loaded = InitLoaded
                        /\ sets = <<>> /\ grid = None
  /\ pc = "gen" => fixer # None

---------------------------------------------------------------------------
(* Claims about the value list of Prompt Replace *)

ListParsed == md # None /\ md.op = "parse_list" /\ md.out # None

NoEntryHasEquals(in_list) ==
  \A x \in 1..Len(in_list) : ~Contains(<<"=">>, in_list[x])

\* C25: when no entry of the raw value list holds "=", parse_list turns
\* every entry x into an axis value titled x whose substitution is
\* "<first entry>=x", the list keeping its length and order; when an entry
\* holds "=", the list is returned as it is.
C25_ParseList ==
  ListParsed =>
    IF NoEntryHasEquals(md.value)
    THEN /\ DOMAIN md.out = {"returned"}
         /\ Len(md.out.returned) = Len(md.value)
         /\ \A x \in 1..Len(md.value) :
              /\ md.out.returned[x].title = md.value[x]
              /\ md.out.returned[x].params
                   = <<(<<"promptreplace", md.value[1] \o <<"=">> \o md.value[x]>>)>>
    ELSE md.out = [returned |-> [x \in 1..Len(md.value) |-> StrV(md.value[x])]]

\* the list cat, dog has become cat=cat, cat=dog
C25_Witness ==
  /\ ListParsed
  /\ md.value = <<T_cat, T_dog>>
  /\ md.out.returned[1].title = T_cat
  /\ DictGet(md.out.returned[1].params, "promptreplace")
       = <<"c", "a", "t", "=", "c", "a", "t">>
  /\ DictGet(md.out.returned[2].params, "promptreplace") = T_cat_dog

====
